---- MODULE Spec2Model ----
(***************************************************************************)
(* EOL Timeline Viewer: the compact URL state codec (lib/url-state.ts and  *)
(* its lenient variant) and the Gantt adapter (lifecycle classifier,       *)
(* segment decomposition, relevant-cycle selection, row building).         *)
(*                                                                         *)
(* JavaScript strings are sequences of UTF-16 code units; a string is      *)
(* modelled as a sequence of code-unit numbers, so that percent-encoding   *)
(* and decoding are computed as the platform computes them.                *)
(***************************************************************************)
EXTENDS Integers, Sequences, FiniteSets, TLC

VARIABLES
    fieldPool,      \* codec: the strings the user may type into a name/version field
    services,       \* codec: the in-memory service list (Service[])
    encoded,        \* codec: outcome of encodeURLState(services)
    decoded,        \* codec: outcome of the strict decodeURLState(encoded)
    raw,            \* decoder: the text of the 's' parameter handed to the decoders
    strictResult,   \* decoder: outcome of the strict decodeURLState(raw)
    lenientResult,  \* decoder: outcome of the lenient decodeURLState(raw)
    cycle,          \* row: the catalog's version cycle of the technology
    techVersion,    \* row: the technology's declared currentVersion
    clock,          \* row: the platform clock (new Date())
    pcRow,          \* row: position inside convertToGanttData
    relevant,       \* row: result of getRelevantCycles
    segments,       \* row: result of calculateStages
    nowSeg,         \* row: the instant calculateStages read
    stage,          \* row: result of getLifecycleStage
    nowStage,       \* row: the instant getLifecycleStage read
    tasks,          \* row: the tasks pushed by convertToGanttData
    cycles,         \* cycles: input cycle list of getRelevantCycles
    currentVersion, \* cycles: input version of getRelevantCycles
    relevantCycles, \* cycles: outcome of getRelevantCycles
    search,         \* page: window.location.search, the query string of the address bar
    stored,         \* page: the value localStorage holds under the application's key
    urlRead,        \* page: outcome of getURLStateFromCurrentURL()
    loadResult,     \* page: outcome of loadFromLocalStorage()
    hook,           \* page: state of the useURLState hook
    page,           \* page: state of the Home component (app/page.tsx)
    edit,           \* page: the last call of a change handler: which one, and its argument
    ganttInput,     \* chart: the services argument of convertToGanttData
    eolData,        \* chart: the catalog (EOLDataMap): product name -> cycles
    ganttData,      \* chart: outcome of convertToGanttData(ganttInput, eolData)
    versions,       \* versions: the two labels handed to compareVersions
    order,          \* versions: outcome of compareVersions in both directions
    eolDataCache,   \* loader: the module's eolDataCache (0 is null, k the data of fetch k)
    cachePromise,   \* loader: the module's cachePromise (0 is null, k the promise of fetch k)
    fetches,        \* loader: the fetches started, each pending, resolved or rejected
    calls,          \* loader: the loadEOLData calls made, each awaiting or settled
    cleared,        \* loader: number of clearEOLDataCache calls so far
    retry,          \* fetch script: one fetchWithRetry call, its position and what it did
    other,          \* pairs: a second service list
    otherEncoded    \* pairs: outcome of encodeURLState(other)

codecVars  == <<fieldPool, services, encoded, decoded>>
decodeVars == <<raw, strictResult, lenientResult>>
rowVars    == <<cycle, techVersion, clock, pcRow, relevant, segments, nowSeg, stage, nowStage, tasks>>
cycleVars  == <<cycles, currentVersion, relevantCycles>>
pageVars   == <<search, stored, urlRead, loadResult, hook, page, edit>>
chartVars  == <<ganttInput, eolData, ganttData>>
versionVars == <<versions, order>>
loaderVars == <<eolDataCache, cachePromise, fetches, calls, cleared>>
retryVars == <<retry>>
pairVars == <<other, otherEncoded>>
vars == <<codecVars, decodeVars, rowVars, cycleVars, pageVars, chartVars, versionVars, loaderVars,
         retryVars, pairVars>>

----------------------------------------------------------------------------
(* Characters and strings *)

\* Code unit of a character written as a one-character TLA+ string.
Ord(c) ==
    CASE c = " " -> 32  [] c = "%" -> 37  [] c = "&" -> 38
      [] c = "(" -> 40  [] c = ")" -> 41  [] c = "+" -> 43
      [] c = "," -> 44  [] c = "-" -> 45  [] c = "." -> 46
      [] c = "0" -> 48  [] c = "1" -> 49  [] c = "2" -> 50  [] c = "3" -> 51
      [] c = "4" -> 52  [] c = "5" -> 53  [] c = "6" -> 54  [] c = "7" -> 55
      [] c = "8" -> 56  [] c = "9" -> 57
      [] c = ":" -> 58  [] c = ";" -> 59  [] c = "=" -> 61  [] c = "?" -> 63
      [] c = "A" -> 65  [] c = "B" -> 66  [] c = "C" -> 67
      [] c = "a" -> 97  [] c = "b" -> 98  [] c = "c" -> 99  [] c = "e" -> 101
      [] c = "h" -> 104 [] c = "i" -> 105 [] c = "r" -> 114 [] c = "s" -> 115
      [] c = "t" -> 116 [] c = "v" -> 118 [] c = "x" -> 120 [] c = "y" -> 121
      [] c = "z" -> 122

\* The string whose characters are the one-character strings of t.
Str(t) == [i \in 1..Len(t) |-> Ord(t[i])]

\* The decimal digits of a natural number (template-literal interpolation).
RECURSIVE Digits(_)
Digits(n) == IF n < 10 THEN <<48 + n>> ELSE Digits(n \div 10) \o <<48 + (n % 10)>>

\* String.prototype.includes with a one-character argument.
Includes(s, c) == \E i \in 1..Len(s) : s[i] = c

\* String.prototype.indexOf with a one-character argument (0-based, -1 if absent).
IndexOf(s, c) ==
    IF Includes(s, c)
    THEN (CHOOSE i \in 1..Len(s) : s[i] = c /\ \A j \in 1..(i-1) : s[j] # c) - 1
    ELSE -1

\* String.prototype.lastIndexOf with a one-character argument.
LastIndexOf(s, c) ==
    IF Includes(s, c)
    THEN (CHOOSE i \in 1..Len(s) : s[i] = c /\ \A j \in (i+1)..Len(s) : s[j] # c) - 1
    ELSE -1

\* String.prototype.substring(a, b): both indexes clamped to [0, length] and
\* swapped when a > b; the characters a .. b-1 (0-based).
Substring(s, a, b) ==
    LET clamp(n) == IF n < 0 THEN 0 ELSE IF n > Len(s) THEN Len(s) ELSE n
        lo == IF clamp(a) <= clamp(b) THEN clamp(a) ELSE clamp(b)
        hi == IF clamp(a) <= clamp(b) THEN clamp(b) ELSE clamp(a)
    IN  SubSeq(s, lo + 1, hi)

\* String.prototype.substring(a).
SubstringFrom(s, a) == Substring(s, a, Len(s))

\* WhiteSpace and LineTerminator code units below U+0800 (what trim() strips).
WhiteSpace == {9, 10, 11, 12, 13, 32, 160}

\* String.prototype.trim.
Trim(s) ==
    IF \A i \in 1..Len(s) : s[i] \in WhiteSpace THEN <<>>
    ELSE SubSeq(s,
           CHOOSE i \in 1..Len(s) :
               s[i] \notin WhiteSpace /\ \A j \in 1..(i - 1) : s[j] \in WhiteSpace,
           CHOOSE i \in 1..Len(s) :
               s[i] \notin WhiteSpace /\ \A j \in (i + 1)..Len(s) : s[j] \in WhiteSpace)

\* String.prototype.split with a one-character separator.
Split(s, sep) ==
    LET at == {i \in 1..Len(s) : s[i] = sep}
        n  == Cardinality(at)
        pos(k) == IF k = 0 THEN 0
                  ELSE IF k = n + 1 THEN Len(s) + 1
                  ELSE CHOOSE p \in at : Cardinality({q \in at : q < p}) = k - 1
    IN  [k \in 1..(n + 1) |-> SubSeq(s, pos(k - 1) + 1, pos(k) - 1)]

\* Array.prototype.join with a one-character separator.
RECURSIVE Join(_, _)
Join(parts, sep) ==
    IF Len(parts) = 0 THEN <<>>
    ELSE IF Len(parts) = 1 THEN parts[1]
    ELSE parts[1] \o <<sep>> \o Join(Tail(parts), sep)

----------------------------------------------------------------------------
(* encodeURIComponent / decodeURIComponent *)

\* Characters encodeURIComponent leaves alone: A-Z a-z 0-9 - _ . ! ~ * ' ( )
UriUnreserved ==
    (65..90) \cup (97..122) \cup (48..57) \cup {45, 95, 46, 33, 126, 42, 39, 40, 41}

HexDigit(v) == IF v < 10 THEN 48 + v ELSE 55 + v

PercentByte(b) == <<37, HexDigit(b \div 16), HexDigit(b % 16)>>

\* One character, escaped as the percent-encoded bytes of its UTF-8 form.
EscapeChar(c) ==
    IF c \in UriUnreserved THEN <<c>>
    ELSE IF c < 128 THEN PercentByte(c)
    ELSE IF c < 2048 THEN PercentByte(192 + (c \div 64)) \o PercentByte(128 + (c % 64))
    ELSE PercentByte(224 + (c \div 4096)) \o PercentByte(128 + ((c \div 64) % 64))
           \o PercentByte(128 + (c % 64))

RECURSIVE encodeURIComponent(_)
encodeURIComponent(s) ==
    IF Len(s) = 0 THEN <<>> ELSE EscapeChar(Head(s)) \o encodeURIComponent(Tail(s))

\* Value of a hexadecimal digit, -1 for any other character.
HexVal(c) ==
    IF c \in 48..57 THEN c - 48
    ELSE IF c \in 65..70 THEN c - 55
    ELSE IF c \in 97..102 THEN c - 87
    ELSE -1

\* The byte written as %XX at 1-based position i of s, -1 when none is there.
ByteAt(s, i) ==
    IF i + 2 <= Len(s) /\ s[i] = 37 /\ HexVal(s[i+1]) >= 0 /\ HexVal(s[i+2]) >= 0
    THEN 16 * HexVal(s[i+1]) + HexVal(s[i+2])
    ELSE -1

IsContinuation(b) == b >= 128 /\ b <= 191

\* decodeURIComponent from position i on: [ok, value]; ok = FALSE is URIError.
\* Four-byte sequences (lead bytes F0..F4) are beyond the characters modelled.
RECURSIVE DecodeFrom(_, _)
DecodeFrom(s, i) ==
    IF i > Len(s) THEN [ok |-> TRUE, value |-> <<>>]
    ELSE IF s[i] # 37 THEN
        LET rest == DecodeFrom(s, i + 1)
        IN  [ok |-> rest.ok, value |-> <<s[i]>> \o rest.value]
    ELSE
        LET b1 == ByteAt(s, i)
            b2 == ByteAt(s, i + 3)
            b3 == ByteAt(s, i + 6)
        IN  IF b1 < 0 THEN [ok |-> FALSE, value |-> <<>>]
            ELSE IF b1 < 128 THEN
                LET rest == DecodeFrom(s, i + 3)
                IN  [ok |-> rest.ok, value |-> <<b1>> \o rest.value]
            ELSE IF b1 >= 194 /\ b1 <= 223 /\ IsContinuation(b2) THEN
                LET rest == DecodeFrom(s, i + 6)
                IN  [ok |-> rest.ok,
                     value |-> <<(b1 - 192) * 64 + (b2 - 128)>> \o rest.value]
            ELSE IF b1 >= 224 /\ b1 <= 239 /\ IsContinuation(b2) /\ IsContinuation(b3) THEN
                LET cp   == (b1 - 224) * 4096 + (b2 - 128) * 64 + (b3 - 128)
                    rest == DecodeFrom(s, i + 9)
                IN  IF cp < 2048 \/ (cp >= 55296 /\ cp <= 57343)
                    THEN [ok |-> FALSE, value |-> <<>>]
                    ELSE [ok |-> rest.ok, value |-> <<cp>> \o rest.value]
            ELSE [ok |-> FALSE, value |-> <<>>]

decodeURIComponent(s) == DecodeFrom(s, 1)

----------------------------------------------------------------------------
(* URL state codec: lib/url-state.ts (strict decoder) *)

MAX_URL_LENGTH == 2048

SCHEMA_VERSION == 1

\* SPECIAL_CHARS_PATTERN = /[:;,() ]/
SPECIAL_CHARS_PATTERN == {Ord(":"), Ord(";"), Ord(","), Ord("("), Ord(")"), Ord(" ")}

encodeIfNeeded(str) ==
    IF \E i \in 1..Len(str) : str[i] \in SPECIAL_CHARS_PATTERN
    THEN encodeURIComponent(str)
    ELSE str

\* [ok, value]; ok = FALSE when decodeURIComponent throws URIError.
decodeIfNeeded(str) ==
    IF Includes(str, Ord("%")) THEN decodeURIComponent(str)
    ELSE [ok |-> TRUE, value |-> str]

\* `${techName}:${version}`
EncodeTechnology(tech) ==
    encodeIfNeeded(tech.name) \o <<Ord(":")>> \o encodeIfNeeded(tech.currentVersion)

\* `${serviceName}(${technologies})`
EncodeService(service) ==
    encodeIfNeeded(service.name) \o <<Ord("(")>>
      \o Join([j \in 1..Len(service.technologies) |->
                 EncodeTechnology(service.technologies[j])], Ord(","))
      \o <<Ord(")")>>

\* encodedServices.join(';')
CompactForm(svcs) == Join([i \in 1..Len(svcs) |-> EncodeService(svcs[i])], Ord(";"))

\* A variant of the length test that also rejects a query string of exactly
\* MAX_URL_LENGTH characters.
ExceedsLimitAtLimit(fullUrl) == Len(fullUrl) >= MAX_URL_LENGTH

\* Whether the full query string `?s=${encoded}` is over the limit.
ExceedsLimit(fullUrl) == Len(fullUrl) > MAX_URL_LENGTH

\* encodeURLState: [ok, value, error]; ok = FALSE is the thrown Error.
encodeURLState(svcs) ==
    IF Len(svcs) = 0 THEN [ok |-> TRUE, value |-> <<>>, error |-> "none"]
    ELSE
        LET enc     == CompactForm(svcs)
            fullUrl == Str(<<"?", "s", "=">>) \o enc
        IN  IF ExceedsLimit(fullUrl)
            THEN [ok |-> FALSE, value |-> <<>>, error |-> "exceeds maximum allowed length"]
            ELSE [ok |-> TRUE, value |-> enc, error |-> "none"]

\* A returned URLState, and a thrown Error (no value is returned).
Returned(svcs) ==
    [ok |-> TRUE, version |-> SCHEMA_VERSION, services |-> svcs, error |-> "none"]

Thrown(message) ==
    [ok |-> FALSE, version |-> SCHEMA_VERSION, services |-> <<>>, error |-> message]

\* validateURLState: the message of the Error it throws, "none" when it passes.
validateURLState(svcs) ==
    IF \E i \in 1..Len(svcs) : svcs[i].id = <<>>
        THEN "Service id must be a non-empty string"
    ELSE IF \E i \in 1..Len(svcs) : svcs[i].name = <<>>
        THEN "Service name must be a non-empty string"
    ELSE IF \E i \in 1..Len(svcs) : \E j \in 1..Len(svcs[i].technologies) :
                svcs[i].technologies[j].id = <<>>
        THEN "Technology id must be a non-empty string"
    ELSE IF \E i \in 1..Len(svcs) : \E j \in 1..Len(svcs[i].technologies) :
                svcs[i].technologies[j].name = <<>>
        THEN "Technology name must be a non-empty string"
    ELSE IF \E i \in 1..Len(svcs) : \E j \in 1..Len(svcs[i].technologies) :
                svcs[i].technologies[j].currentVersion = <<>>
        THEN "Technology currentVersion must be a non-empty string"
    ELSE "none"

\* The inner loop of the strict decoder over techStrings, from 0-based index j:
\* [ok, technologies, error].
RECURSIVE StrictTechnologies(_, _, _, _)
StrictTechnologies(serviceName, techStrings, j, acc) ==
    IF j >= Len(techStrings) THEN [ok |-> TRUE, technologies |-> acc, error |-> "none"]
    ELSE
        LET techString == Trim(techStrings[j + 1])
            colonIndex == IndexOf(techString, Ord(":"))
            techName   == decodeIfNeeded(Substring(techString, 0, colonIndex))
            version    == decodeIfNeeded(SubstringFrom(techString, colonIndex + 1))
            fail(msg)  == [ok |-> FALSE, technologies |-> <<>>, error |-> msg]
        IN  IF techString = <<>> THEN StrictTechnologies(serviceName, techStrings, j + 1, acc)
            ELSE IF colonIndex = -1 THEN fail("missing colon")
            ELSE IF ~techName.ok \/ ~version.ok THEN fail("URI malformed")
            ELSE IF Trim(techName.value) = <<>> THEN fail("Technology name cannot be empty")
            ELSE IF Trim(version.value) = <<>> THEN fail("Technology version cannot be empty")
            ELSE StrictTechnologies(serviceName, techStrings, j + 1,
                    Append(acc, [id |-> serviceName \o <<Ord("-")>> \o techName.value
                                          \o <<Ord("-")>> \o Digits(j),
                                 name |-> techName.value,
                                 currentVersion |-> version.value]))

\* A variant of the parenthesis test that rejects a segment only when both
\* parentheses are missing.
MissingBothParentheses(openParenIndex, closeParenIndex) ==
    openParenIndex = -1 /\ closeParenIndex = -1

\* openParenIndex === -1 || closeParenIndex === -1
MissingParentheses(openParenIndex, closeParenIndex) ==
    openParenIndex = -1 \/ closeParenIndex = -1

\* The outer loop of the strict decoder over serviceStrings, from 0-based index i.
RECURSIVE StrictServices(_, _, _)
StrictServices(serviceStrings, i, acc) ==
    IF i >= Len(serviceStrings) THEN Returned(acc)
    ELSE
        LET serviceString   == Trim(serviceStrings[i + 1])
            openParenIndex  == IndexOf(serviceString, Ord("("))
            closeParenIndex == LastIndexOf(serviceString, Ord(")"))
            serviceName     == decodeIfNeeded(Substring(serviceString, 0, openParenIndex))
            techListString  == Substring(serviceString, openParenIndex + 1, closeParenIndex)
            techs == IF Trim(techListString) = <<>>
                     THEN [ok |-> TRUE, technologies |-> <<>>, error |-> "none"]
                     ELSE StrictTechnologies(serviceName.value,
                                             Split(techListString, Ord(",")), 0, <<>>)
        IN  IF serviceString = <<>> THEN StrictServices(serviceStrings, i + 1, acc)
            ELSE IF MissingParentheses(openParenIndex, closeParenIndex)
                THEN Thrown("missing parentheses")
            ELSE IF openParenIndex = 0 THEN Thrown("missing service name")
            ELSE IF ~serviceName.ok THEN Thrown("URI malformed")
            ELSE IF Trim(serviceName.value) = <<>> THEN Thrown("Service name cannot be empty")
            ELSE IF ~techs.ok THEN Thrown(techs.error)
            ELSE StrictServices(serviceStrings, i + 1,
                    Append(acc, [id |-> Str(<<"s","e","r","v","i","c","e","-">>) \o Digits(i),
                                 name |-> serviceName.value,
                                 technologies |-> techs.technologies]))

\* The end of decodeURLState's try block: validateURLState on the parsed
\* services, then the return.
Validated(parsed) ==
    IF ~parsed.ok THEN parsed
    ELSE IF validateURLState(parsed.services) # "none"
        THEN Thrown(validateURLState(parsed.services))
    ELSE parsed

\* decodeURLState of lib/url-state.ts. Every Error is rethrown as
\* "Failed to decode URL state: <message>"; error keeps <message>.
decodeURLState(enc) ==
    IF Trim(enc) = <<>> THEN Returned(<<>>)
    ELSE Validated(StrictServices(Split(enc, Ord(";")), 0, <<>>))

----------------------------------------------------------------------------
(* URL state codec: the lenient decoder variant *)

\* Characters the regular expression's `.` does not match.
LineTerminators == {10, 13, 8232, 8233}

\* segment.match(/^(.+)\((.*)\)$/): the 1-based position of the "(" that ends the
\* greedy first group, 0 when the segment does not match.
MatchSegment(segment) ==
    LET opens == {p \in 2..(Len(segment) - 1) : segment[p] = Ord("(")}
    IN  IF Len(segment) >= 3 /\ segment[Len(segment)] = Ord(")") /\ opens # {}
           /\ \A k \in 1..Len(segment) : segment[k] \notin LineTerminators
        THEN CHOOSE p \in opens : \A q \in opens : q <= p
        ELSE 0

\* The loop of the lenient decoder over techSegments, from 0-based index i.
RECURSIVE LenientTechnologies(_, _, _, _)
LenientTechnologies(serviceIndex, techSegments, i, acc) ==
    IF i >= Len(techSegments) THEN [ok |-> TRUE, technologies |-> acc, error |-> "none"]
    ELSE
        LET techSegment == techSegments[i + 1]
            colonIndex  == IndexOf(techSegment, Ord(":"))
            techName    == decodeIfNeeded(Substring(techSegment, 0, colonIndex))
            version     == decodeIfNeeded(SubstringFrom(techSegment, colonIndex + 1))
        IN  IF techSegment = <<>> THEN LenientTechnologies(serviceIndex, techSegments, i + 1, acc)
            ELSE IF colonIndex = -1
                THEN LenientTechnologies(serviceIndex, techSegments, i + 1, acc)
            ELSE IF ~techName.ok \/ ~version.ok
                THEN [ok |-> FALSE, technologies |-> <<>>, error |-> "URI malformed"]
            ELSE IF techName.value = <<>> \/ version.value = <<>>
                THEN LenientTechnologies(serviceIndex, techSegments, i + 1, acc)
            ELSE LenientTechnologies(serviceIndex, techSegments, i + 1,
                    Append(acc, [id |-> Str(<<"t","e","c","h","-">>) \o Digits(serviceIndex)
                                          \o <<Ord("-")>> \o Digits(i),
                                 name |-> techName.value,
                                 currentVersion |-> version.value]))

\* The loop of the lenient decoder over serviceSegments, from 1-based position k;
\* serviceIndex is Len(acc).
RECURSIVE LenientServices(_, _, _)
LenientServices(serviceSegments, k, acc) ==
    IF k > Len(serviceSegments) THEN Returned(acc)
    ELSE
        LET segment     == serviceSegments[k]
            open        == MatchSegment(segment)
            serviceName == decodeIfNeeded(SubSeq(segment, 1, open - 1))
            technologiesStr == SubSeq(segment, open + 1, Len(segment) - 1)
            techs == IF technologiesStr = <<>>
                     THEN [ok |-> TRUE, technologies |-> <<>>, error |-> "none"]
                     ELSE LenientTechnologies(Len(acc), Split(technologiesStr, Ord(",")),
                                              0, <<>>)
        IN  IF segment = <<>> THEN LenientServices(serviceSegments, k + 1, acc)
            ELSE IF open = 0 THEN LenientServices(serviceSegments, k + 1, acc)
            ELSE IF ~serviceName.ok THEN Thrown("URI malformed")
            ELSE IF serviceName.value = <<>> THEN LenientServices(serviceSegments, k + 1, acc)
            ELSE IF ~techs.ok THEN Thrown(techs.error)
            ELSE LenientServices(serviceSegments, k + 1,
                    Append(acc, [id |-> Str(<<"s","e","r","v","i","c","e","-">>)
                                          \o Digits(Len(acc)),
                                 name |-> serviceName.value,
                                 technologies |-> techs.technologies]))

\* decodeURLState of the lenient variant; ok = FALSE is an uncaught URIError.
decodeURLStateLenient(enc) ==
    IF Trim(enc) = <<>> THEN Returned(<<>>)
    ELSE LenientServices(Split(Trim(enc), Ord(";")), 1, <<>>)

----------------------------------------------------------------------------
(* Gantt adapter: version comparison and relevant cycles *)

\* A catalog field holding an ISO date (date counts time units from an epoch).
DateField(d) == [kind |-> "date", date |-> d]

\* A catalog field holding no date: "empty" (the string ""), "false", "true",
\* "absent" (the property is missing), or "invalid" (a non-empty string that
\* Date cannot parse; the model gives it to releaseDate only).
OtherField(k) == [kind |-> k, date |-> 0]

\* The time value of an Invalid Date.
NaN == -1

\* A variant of the test that leaves out the typeof check: `if (value)`.
IsTruthy(f) == f.kind \in {"date", "true", "invalid"}

\* value && typeof value === 'string'
IsDateString(f) == f.kind = "date"

\* new Date(value).getTime()
GetTime(f) == IF f.kind = "invalid" THEN NaN ELSE f.date

\* parseInt(part, 10) || 0 on a string of decimal digits ("" gives NaN, so 0).
RECURSIVE ParseInt(_)
ParseInt(part) ==
    IF Len(part) = 0 THEN 0
    ELSE 10 * ParseInt(SubSeq(part, 1, Len(part) - 1)) + (part[Len(part)] - 48)

\* normalize: v.replace(/[^\d.]/g, '').split('.').map(part => parseInt(part, 10) || 0)
Normalize(v) ==
    LET kept  == SelectSeq(v, LAMBDA c : c \in 48..57 \/ c = Ord("."))
        parts == Split(kept, Ord("."))
    IN  [k \in 1..Len(parts) |-> ParseInt(parts[k])]

\* The component-wise comparison of two number lists from position i on.
RECURSIVE CompareParts(_, _, _)
CompareParts(p1, p2, i) ==
    IF i > Len(p1) THEN 0
    ELSE IF p1[i] > p2[i] THEN 1
    ELSE IF p1[i] < p2[i] THEN -1
    ELSE CompareParts(p1, p2, i + 1)

\* A variant of compareVersions without the padding: the loop stops at the end
\* of the shorter list.
compareVersionsUnpadded(version1, version2) ==
    LET v1Parts   == Normalize(version1)
        v2Parts   == Normalize(version2)
        minLength == IF Len(v1Parts) <= Len(v2Parts) THEN Len(v1Parts) ELSE Len(v2Parts)
    IN  CompareParts(SubSeq(v1Parts, 1, minLength), SubSeq(v2Parts, 1, minLength), 1)

compareVersions(version1, version2) ==
    LET v1Parts   == Normalize(version1)
        v2Parts   == Normalize(version2)
        maxLength == IF Len(v1Parts) >= Len(v2Parts) THEN Len(v1Parts) ELSE Len(v2Parts)
        pad(parts) == [k \in 1..maxLength |-> IF k <= Len(parts) THEN parts[k] ELSE 0]
    IN  CompareParts(pad(v1Parts), pad(v2Parts), 1)

\* The filter of getRelevantCycles: cycle.releaseDate && typeof cycle.eol === 'string'
IsValidCycle(c) == c.releaseDate.kind \in {"date", "invalid"} /\ c.eol.kind = "date"

\* The comparator of the sort, as SortCompare reads it: a NaN result counts as +0.
ByReleaseDate(a, b) ==
    IF GetTime(a.releaseDate) = NaN \/ GetTime(b.releaseDate) = NaN THEN 0
    ELSE GetTime(a.releaseDate) - GetTime(b.releaseDate)

\* Array.prototype.sort by ascending releaseDate (the sort is stable): x is put
\* after every element already placed whose releaseDate is not later.
RECURSIVE InsertByRelease(_, _)
InsertByRelease(sorted, x) ==
    IF Len(sorted) = 0 THEN <<x>>
    ELSE IF ByReleaseDate(sorted[Len(sorted)], x) <= 0
        THEN Append(sorted, x)
    ELSE Append(InsertByRelease(SubSeq(sorted, 1, Len(sorted) - 1), x), sorted[Len(sorted)])

RECURSIVE SortByRelease(_)
SortByRelease(cs) ==
    IF Len(cs) = 0 THEN <<>>
    ELSE InsertByRelease(SortByRelease(SubSeq(cs, 1, Len(cs) - 1)), cs[Len(cs)])

\* validCycles.findIndex(cycle => compareVersions(cycle.cycle, currentVersion) >= 0),
\* as a 1-based position, 0 for -1.
FindCurrentIndex(validCycles, version) ==
    LET hits == {k \in 1..Len(validCycles) :
                    compareVersions(validCycles[k].cycle, version) >= 0}
    IN  IF hits = {} THEN 0 ELSE CHOOSE k \in hits : \A h \in hits : k <= h

getRelevantCycles(cs, version) ==
    LET validCycles  == SortByRelease(SelectSeq(cs, IsValidCycle))
        currentIndex == FindCurrentIndex(validCycles, version)
    IN  IF Len(cs) = 0 THEN <<>>
        ELSE IF Len(validCycles) = 0 THEN <<>>
        ELSE IF Trim(version) = <<>> THEN validCycles
        ELSE IF currentIndex = 0 THEN validCycles
        ELSE SubSeq(validCycles, currentIndex, Len(validCycles))

----------------------------------------------------------------------------
(* Gantt adapter: lifecycle classifier and row building *)

Segment(start, end, stg) == [start |-> start, end |-> end, stage |-> stg]

\* A variant of calculateStages that takes a cycle ending at this very instant
\* for expired.
calculateStagesEndingNow(c, startDate, endDate, now) ==
    IF endDate <= now THEN <<Segment(startDate, endDate, "eol")>>
    ELSE IF IsDateString(c.lts) THEN
        IF IsDateString(c.support)
        THEN <<Segment(startDate, GetTime(c.lts), "current"),
               Segment(GetTime(c.lts), GetTime(c.support), "active"),
               Segment(GetTime(c.support), endDate, "maintenance")>>
        ELSE <<Segment(startDate, GetTime(c.lts), "current"),
               Segment(GetTime(c.lts), endDate, "active")>>
    ELSE IF IsDateString(c.support)
        THEN <<Segment(startDate, GetTime(c.support), "active"),
               Segment(GetTime(c.support), endDate, "maintenance")>>
    ELSE <<Segment(startDate, endDate, "active")>>

\* calculateStages(cycle, startDate, endDate), with now the instant new Date() gave.
calculateStages(c, startDate, endDate, now) ==
    IF endDate < now THEN <<Segment(startDate, endDate, "eol")>>
    ELSE IF IsDateString(c.lts) THEN
        IF IsDateString(c.support)
        THEN <<Segment(startDate, GetTime(c.lts), "current"),
               Segment(GetTime(c.lts), GetTime(c.support), "active"),
               Segment(GetTime(c.support), endDate, "maintenance")>>
        ELSE <<Segment(startDate, GetTime(c.lts), "current"),
               Segment(GetTime(c.lts), endDate, "active")>>
    ELSE IF IsDateString(c.support)
        THEN <<Segment(startDate, GetTime(c.support), "active"),
               Segment(GetTime(c.support), endDate, "maintenance")>>
    ELSE <<Segment(startDate, endDate, "active")>>

\* getLifecycleStage(cycle, startDate, endDate), with now the instant new Date() gave.
getLifecycleStage(c, startDate, endDate, now) ==
    IF endDate < now THEN "eol"
    ELSE IF IsDateString(c.lts) THEN
        IF IsDateString(c.support)
        THEN IF now < GetTime(c.lts) THEN "current"
             ELSE IF now < GetTime(c.support) THEN "active"
             ELSE "maintenance"
        ELSE IF now < GetTime(c.lts) THEN "current" ELSE "active"
    ELSE IF IsDateString(c.support)
        THEN IF now < GetTime(c.support) THEN "active" ELSE "maintenance"
    ELSE "active"

\* releaseDate.setFullYear(releaseDate.getFullYear() + 5), in the model's time units.
FiveYears == 5

\* Whether convertToGanttData reaches the task of cycle c (neither `continue` taken).
YieldsTask(c) ==
    c.eol.kind \in {"date", "false"} /\ c.releaseDate.kind \in {"date", "invalid"}

\* eolDateStr of convertToGanttData, as an instant.
EolDate(c) ==
    IF c.eol.kind = "date" THEN GetTime(c.eol)
    ELSE IF IsDateString(c.support) THEN GetTime(c.support)
    ELSE GetTime(c.releaseDate) + FiveYears

\* The task convertToGanttData pushes for cycle c of a technology.
GanttTask(taskId, c, version, segs, lifecycleStage) ==
    [id |-> taskId,
     version |-> c.cycle,
     start |-> GetTime(c.releaseDate),
     end |-> EolDate(c),
     segments |-> segs,
     stage |-> lifecycleStage,
     isCurrentVersion |-> (compareVersions(c.cycle, version) = 0)]

----------------------------------------------------------------------------
(* Values of the variables before an operation has run *)

NotEncoded == [ok |-> FALSE, value |-> <<>>, error |-> "not run"]

NotDecoded == [ok |-> FALSE, version |-> 0, services |-> <<>>, error |-> "not run"]

NoCycle ==
    [cycle |-> <<>>, releaseDate |-> OtherField("empty"), eol |-> OtherField("false"),
     support |-> OtherField("absent"), lts |-> OtherField("absent")]

NotSelected == [done |-> FALSE, result |-> <<>>]

CodecIdle ==
    fieldPool = {} /\ services = <<>> /\ encoded = NotEncoded /\ decoded = NotDecoded

DecodeIdle == raw = <<>> /\ strictResult = NotDecoded /\ lenientResult = NotDecoded

RowIdle ==
    /\ cycle = NoCycle /\ techVersion = <<>> /\ clock = 0 /\ pcRow = "idle"
    /\ relevant = <<>> /\ segments = <<>> /\ nowSeg = 0 /\ stage = "none"
    /\ nowStage = 0 /\ tasks = <<>>

CycleIdle == cycles = <<>> /\ currentVersion = <<>> /\ relevantCycles = NotSelected

\* localStorage.getItem gives null: nothing is stored under the key.
NoItem == [kind |-> "null", value |-> <<>>]

NotRead == [done |-> FALSE, threw |-> FALSE, success |-> FALSE, hasData |-> FALSE,
            services |-> <<>>, error |-> "none"]

\* useState initial values of useURLState, and the isInitialized ref.
HookInitial ==
    [services |-> <<>>, isURLLoaded |-> FALSE, urlError |-> "none", isInitialized |-> FALSE]

\* loadFromLocalStorage has not run.
NotLoaded == [done |-> FALSE, success |-> FALSE, data |-> <<>>, error |-> "none"]

\* useState initial values of the Home component.
PageInitial ==
    [services |-> <<>>, notification |-> "none", isLoading |-> TRUE, error |-> "none"]

\* No change handler has been called.
NoEdit == [by |-> "none", services |-> <<>>, updated |-> TRUE]

\* convertToGanttData has not run.
NotConverted == [done |-> FALSE, tasks |-> <<>>]

ChartIdle == ganttInput = <<>> /\ eolData = <<>> /\ ganttData = NotConverted

\* compareVersions has not run.
NotCompared == [done |-> FALSE, forward |-> 0, backward |-> 0]

VersionIdle == versions = <<>> /\ order = NotCompared

PairIdle == other = <<>> /\ otherEncoded = NotEncoded

\* No fetchWithRetry call was made.
NotCalled == [pc |-> "idle"]

RetryIdle == retry = NotCalled

\* The module eol-data as loaded: both globals null, nothing called.
LoaderIdle ==
    /\ eolDataCache = 0 /\ cachePromise = 0 /\ fetches = <<>> /\ calls = <<>>
    /\ cleared = 0

PageIdle ==
    /\ search = <<>> /\ stored = NoItem /\ urlRead = NotRead /\ loadResult = NotLoaded
    /\ hook = HookInitial /\ page = PageInitial /\ edit = NoEdit

----------------------------------------------------------------------------
(* Codec: a service list is edited, encoded, and the encoding decoded *)

\* Total number of name and version fields a service list may hold.
MaxFields == 4

\* A string of n characters "x".
Filler(n) == [i \in 1..n |-> Ord("x")]

\* Field values a user may type: plain text, text with each separator of the
\* wire format, and text with a percent sign.
FieldSamples ==
    { Str(<<"x">>), Str(<<"y">>), Str(<<"x", " ", "y">>), Str(<<"x", ":", "y">>),
      Str(<<"x", ";", "y">>), Str(<<"x", ",", "y">>), Str(<<"x", "(", "y">>),
      Str(<<"x", ")", "y">>), Str(<<"x", "%">>), Str(<<"%", "3", "A">>) }

\* Field values long enough to bring the query string to the length limit.
LongSamples == { Filler(MAX_URL_LENGTH - 5), Filler(MAX_URL_LENGTH - 4) }

\* The fields of one run are drawn from at most two sample strings.
Pools(samples) == {{a, b} : a \in samples, b \in samples}

FieldCount(svcs) ==
    LET RECURSIVE Count(_)
        Count(k) == IF k = 0 THEN 0
                    ELSE Count(k - 1) + 1 + 2 * Len(svcs[k].technologies)
    IN  Count(Len(svcs))

InitCodec ==
    /\ fieldPool \in Pools(FieldSamples)
    /\ services = <<>> /\ encoded = NotEncoded /\ decoded = NotDecoded
    /\ DecodeIdle /\ RowIdle /\ CycleIdle /\ PageIdle /\ ChartIdle /\ VersionIdle /\ LoaderIdle /\ RetryIdle /\ PairIdle

InitUrlLength ==
    /\ fieldPool \in {{Str(<<"x">>), f} : f \in LongSamples}
    /\ services = <<>> /\ encoded = NotEncoded /\ decoded = NotDecoded
    /\ DecodeIdle /\ RowIdle /\ CycleIdle /\ PageIdle /\ ChartIdle /\ VersionIdle /\ LoaderIdle /\ RetryIdle /\ PairIdle

\* The user adds a service named n (ids are opaque; they follow creation order).
AddService(n) ==
    /\ encoded = NotEncoded
    /\ FieldCount(services) + 1 <= MaxFields
    /\ services' = Append(services,
                     [id |-> Str(<<"s">>) \o Digits(Len(services)),
                      name |-> n, technologies |-> <<>>])
    /\ UNCHANGED <<fieldPool, encoded, decoded, decodeVars, rowVars, cycleVars, pageVars, chartVars, versionVars, loaderVars, retryVars, pairVars>>

\* The user adds technology n at version v to the last service.
AddTechnology(n, v) ==
    /\ encoded = NotEncoded
    /\ Len(services) > 0
    /\ FieldCount(services) + 2 <= MaxFields
    /\ LET k == Len(services)
           t == [id |-> Str(<<"t">>) \o Digits(Len(services[k].technologies)),
                 name |-> n, currentVersion |-> v]
       IN  services' = [services EXCEPT ![k].technologies = Append(@, t)]
    /\ UNCHANGED <<fieldPool, encoded, decoded, decodeVars, rowVars, cycleVars, pageVars, chartVars, versionVars, loaderVars, retryVars, pairVars>>

\* encodeURLState({version: 1, services})
Encode ==
    /\ encoded = NotEncoded
    /\ encoded' = encodeURLState(services)
    /\ UNCHANGED <<fieldPool, services, decoded, decodeVars, rowVars, cycleVars, pageVars, chartVars, versionVars, loaderVars, retryVars, pairVars>>

\* decodeURLState(encoded), the strict decoder on the encoder's output
DecodeEncoded ==
    /\ encoded.ok
    /\ decoded = NotDecoded
    /\ decoded' = decodeURLState(encoded.value)
    /\ UNCHANGED <<fieldPool, services, encoded, decodeVars, rowVars, cycleVars, pageVars, chartVars, versionVars, loaderVars, retryVars, pairVars>>

NextCodec ==
    \/ \E n \in fieldPool : AddService(n)
    \/ \E n \in fieldPool, v \in fieldPool : AddTechnology(n, v)
    \/ Encode
    \/ DecodeEncoded

SpecCodec == InitCodec /\ [][NextCodec]_vars

SpecUrlLength == InitUrlLength /\ [][NextCodec]_vars

----------------------------------------------------------------------------
(* Decoders: the text of the 's' parameter is typed, then decoded *)

\* Number of tokens the 's' parameter may be made of.
MaxTokens == 3

\* Pieces of text the parameter is typed from.
Tokens ==
    { Str(<<"x">>), Str(<<"(">>), Str(<<")">>), Str(<<":">>), Str(<<";">>),
      Str(<<",">>), Str(<<" ">>), Str(<<"%">>), Str(<<"%", "2", "0">>),
      Str(<<"x", "(">>), Str(<<":", "x">>), Str(<<"x", ":">>),
      Str(<<"x", "(", "x", ":", "x", ")">>) }

\* The concatenation of a sequence of strings.
RECURSIVE Flatten(_)
Flatten(ts) == IF Len(ts) = 0 THEN <<>> ELSE Head(ts) \o Flatten(Tail(ts))

RawInputs == UNION {{Flatten(ts) : ts \in [1..n -> Tokens]} : n \in 0..MaxTokens}

InitDecode ==
    /\ raw \in RawInputs
    /\ strictResult = NotDecoded /\ lenientResult = NotDecoded
    /\ CodecIdle /\ RowIdle /\ CycleIdle /\ PageIdle /\ ChartIdle /\ VersionIdle /\ LoaderIdle /\ RetryIdle /\ PairIdle

\* decodeURLState(raw) of lib/url-state.ts
DecodeStrict ==
    /\ strictResult = NotDecoded /\ lenientResult = NotDecoded
    /\ strictResult' = decodeURLState(raw)
    /\ UNCHANGED <<raw, lenientResult, codecVars, rowVars, cycleVars, pageVars, chartVars, versionVars, loaderVars, retryVars, pairVars>>

\* decodeURLState(raw) of the lenient variant
DecodeLenient ==
    /\ strictResult = NotDecoded /\ lenientResult = NotDecoded
    /\ lenientResult' = decodeURLStateLenient(raw)
    /\ UNCHANGED <<raw, strictResult, codecVars, rowVars, cycleVars, pageVars, chartVars, versionVars, loaderVars, retryVars, pairVars>>

NextDecode == DecodeStrict \/ DecodeLenient

SpecDecode == InitDecode /\ [][NextDecode]_vars

----------------------------------------------------------------------------
(* Rows: convertToGanttData on one technology whose catalog entry has one cycle *)

\* Dates of the catalog run from 1 to MaxDate; the clock from 0 to MaxDate + 1.
MaxDate == 3

Dates == 1..MaxDate

VersionSamples == { Str(<<"3", ".", "9">>), Str(<<"3", ".", "1", "0">>) }

\* Cycles as the endoflife.date API gives them: nothing orders the dates of a cycle.
CycleInputs ==
    [cycle : VersionSamples,
     releaseDate : {OtherField("empty")} \cup {DateField(d) : d \in Dates},
     eol : {OtherField("false"), OtherField("true")} \cup {DateField(d) : d \in Dates},
     support : {OtherField("absent"), OtherField("true")} \cup {DateField(d) : d \in Dates},
     lts : {OtherField("absent"), OtherField("false"), OtherField("true")}
             \cup {DateField(d) : d \in Dates}]

InitRows ==
    /\ cycle \in CycleInputs
    /\ techVersion \in {<<>>, Str(<<"3", ".", "9">>)}
    /\ clock \in 0..(MaxDate + 1)
    /\ pcRow = "start"
    /\ relevant = <<>> /\ segments = <<>> /\ nowSeg = 0 /\ stage = "none"
    /\ nowStage = 0 /\ tasks = <<>>
    /\ CodecIdle /\ DecodeIdle /\ CycleIdle /\ PageIdle /\ ChartIdle /\ VersionIdle /\ LoaderIdle /\ RetryIdle /\ PairIdle

\* Time passes while convertToGanttData runs.
Tick ==
    /\ pcRow \in {"start", "segmented"}
    /\ clock < MaxDate + 1
    /\ clock' = clock + 1
    /\ UNCHANGED <<cycle, techVersion, pcRow, relevant, segments, nowSeg, stage, nowStage,
                   tasks, codecVars, decodeVars, cycleVars, pageVars, chartVars, versionVars, loaderVars, retryVars, pairVars>>

\* convertToGanttData up to and including calculateStages for the first relevant
\* cycle; with no cycle to show the function returns no task.
StartRow ==
    /\ pcRow = "start"
    /\ relevant' = getRelevantCycles(<<cycle>>, techVersion)
    /\ IF Len(relevant') > 0 /\ YieldsTask(relevant'[1])
       THEN /\ segments' = calculateStages(relevant'[1], GetTime(relevant'[1].releaseDate),
                                           EolDate(relevant'[1]), clock)
            /\ nowSeg' = clock
            /\ pcRow' = "segmented"
       ELSE /\ pcRow' = "done"
            /\ UNCHANGED <<segments, nowSeg>>
    /\ UNCHANGED <<cycle, techVersion, clock, stage, nowStage, tasks,
                   codecVars, decodeVars, cycleVars, pageVars, chartVars, versionVars, loaderVars, retryVars, pairVars>>

\* convertToGanttData from getLifecycleStage to tasks.push(task).
FinishRow ==
    /\ pcRow = "segmented"
    /\ stage' = getLifecycleStage(relevant[1], GetTime(relevant[1].releaseDate),
                                  EolDate(relevant[1]), clock)
    /\ nowStage' = clock
    /\ tasks' = Append(tasks, GanttTask(Len(tasks) + 1, relevant[1], techVersion,
                                        segments, stage'))
    /\ pcRow' = "done"
    /\ UNCHANGED <<cycle, techVersion, clock, relevant, segments, nowSeg,
                   codecVars, decodeVars, cycleVars, pageVars, chartVars, versionVars, loaderVars, retryVars, pairVars>>

NextRows == Tick \/ StartRow \/ FinishRow

SpecRows == InitRows /\ [][NextRows]_vars

----------------------------------------------------------------------------
(* Cycles: getRelevantCycles on a cycle list *)

MaxCycles == 3

\* Cycles in the order of the catalog: release dates need not ascend.
SimpleCycles ==
    [cycle : VersionSamples,
     releaseDate : {OtherField("empty"), DateField(1), DateField(2)},
     eol : {OtherField("false"), DateField(MaxDate)},
     support : {OtherField("absent")},
     lts : {OtherField("absent")}]

CurrentVersionSamples ==
    { <<>>, Str(<<" ">>), Str(<<"3", ".", "9">>), Str(<<"3", ".", "1", "0">>),
      Str(<<"3", ".", "1", "1">>) }

InitCycles ==
    /\ cycles \in UNION {[1..n -> SimpleCycles] : n \in 0..MaxCycles}
    /\ currentVersion \in CurrentVersionSamples
    /\ relevantCycles = NotSelected
    /\ CodecIdle /\ DecodeIdle /\ RowIdle /\ PageIdle /\ ChartIdle /\ VersionIdle /\ LoaderIdle /\ RetryIdle /\ PairIdle

SelectCycles ==
    /\ ~relevantCycles.done
    /\ relevantCycles' = [done |-> TRUE, result |-> getRelevantCycles(cycles, currentVersion)]
    /\ UNCHANGED <<cycles, currentVersion, codecVars, decodeVars, rowVars, pageVars, chartVars, versionVars, loaderVars, retryVars, pairVars>>

NextCycles == SelectCycles

SpecCycles == InitCycles /\ [][NextCycles]_vars

----------------------------------------------------------------------------
(* Chart: convertToGanttData on a service list and a catalog *)

\* The tasks convertToGanttData pushes for the relevant cycles of one technology
\* from position k on, after the tasks acc; taskId is the number of tasks pushed
\* so far plus one.
RECURSIVE CycleTasks(_, _, _, _, _, _)
CycleTasks(relevantOnes, k, service, tech, now, acc) ==
    IF k > Len(relevantOnes) THEN acc
    ELSE IF ~YieldsTask(relevantOnes[k])
        THEN CycleTasks(relevantOnes, k + 1, service, tech, now, acc)
    ELSE CycleTasks(relevantOnes, k + 1, service, tech, now,
            Append(acc,
                [task |-> GanttTask(Len(acc) + 1, relevantOnes[k], tech.currentVersion,
                             calculateStages(relevantOnes[k],
                                 GetTime(relevantOnes[k].releaseDate),
                                 EolDate(relevantOnes[k]), now),
                             getLifecycleStage(relevantOnes[k],
                                 GetTime(relevantOnes[k].releaseDate),
                                 EolDate(relevantOnes[k]), now)),
                 techName |-> tech.name, serviceName |-> service.name]))

\* The loop over the technologies of one service from position j on: a
\* technology whose name is no key of the catalog is skipped.
RECURSIVE TechnologyTasks(_, _, _, _, _)
TechnologyTasks(service, j, data, now, acc) ==
    IF j > Len(service.technologies) THEN acc
    ELSE IF service.technologies[j].name \notin DOMAIN data
        THEN TechnologyTasks(service, j + 1, data, now, acc)
    ELSE TechnologyTasks(service, j + 1, data, now,
            CycleTasks(getRelevantCycles(data[service.technologies[j].name],
                                         service.technologies[j].currentVersion),
                       1, service, service.technologies[j], now, acc))

\* The loop over the services from position i on.
RECURSIVE ServiceTasks(_, _, _, _, _)
ServiceTasks(svcs, i, data, now, acc) ==
    IF i > Len(svcs) THEN acc
    ELSE ServiceTasks(svcs, i + 1, data, now, TechnologyTasks(svcs[i], 1, data, now, acc))

\* convertToGanttData(services, eolData).tasks, with now the instant of the run.
convertToGanttData(svcs, data, now) == ServiceTasks(svcs, 1, data, now, <<>>)

\* Number of cycles a product of the catalog may hold.
MaxChartCycles == 3

\* Version labels of the catalog: numbers, and a number with a suffix.
ChartVersions == VersionSamples \cup {Str(<<"3", ".", "1", "0", "-", "e">>)}

\* Cycles of the catalog: the release date may be missing ("") or unparseable.
ChartCycles ==
    [cycle : ChartVersions,
     releaseDate : {OtherField("empty"), OtherField("invalid"), DateField(1), DateField(2)},
     eol : {DateField(MaxDate)},
     support : {OtherField("absent")},
     lts : {OtherField("absent")}]

\* Catalogs with the one product "x".
Catalogs ==
    {[n \in {Str(<<"x">>)} |-> cs] : cs \in UNION {[1..n -> ChartCycles] : n \in 0..MaxChartCycles}}

\* Technologies a service may declare: of the catalog ("x") or not ("z").
ChartTechnologies ==
    {[id |-> Str(<<"t">>), name |-> n, currentVersion |-> v] :
        n \in {Str(<<"x">>), Str(<<"z">>)}, v \in {<<>>, Str(<<"3", ".", "1", "0">>)}}

\* Service lists: one service with one or two technologies, or two services
\* with one technology each.
ChartServices ==
    LET svc(n, ts) == [id |-> Str(<<"s">>), name |-> n, technologies |-> ts]
    IN  {<<svc(Str(<<"a">>), <<t>>)>> : t \in ChartTechnologies}
        \cup {<<svc(Str(<<"a">>), <<t, u>>)>> : t \in ChartTechnologies, u \in ChartTechnologies}
        \cup {<<svc(Str(<<"a">>), <<t>>), svc(Str(<<"b">>), <<u>>)>> :
                t \in ChartTechnologies, u \in ChartTechnologies}

InitChart ==
    /\ ganttInput \in ChartServices
    /\ eolData \in Catalogs
    /\ ganttData = NotConverted
    /\ clock \in {0, MaxDate + 1}
    /\ cycle = NoCycle /\ techVersion = <<>> /\ pcRow = "idle"
    /\ relevant = <<>> /\ segments = <<>> /\ nowSeg = 0 /\ stage = "none"
    /\ nowStage = 0 /\ tasks = <<>>
    /\ CodecIdle /\ DecodeIdle /\ CycleIdle /\ PageIdle /\ VersionIdle /\ LoaderIdle /\ RetryIdle /\ PairIdle

\* convertToGanttData(ganttInput, eolData)
Convert ==
    /\ ~ganttData.done
    /\ ganttData' = [done |-> TRUE, tasks |-> convertToGanttData(ganttInput, eolData, clock)]
    /\ UNCHANGED <<ganttInput, eolData, codecVars, decodeVars, rowVars, cycleVars, pageVars, versionVars, loaderVars, retryVars, pairVars>>

NextChart == Convert

SpecChart == InitChart /\ [][NextChart]_vars

----------------------------------------------------------------------------
(* Versions: compareVersions on two labels *)

\* Number of dot-separated components of a version label.
MaxParts == 2

\* Components of a label: numbers of one and two digits, nothing, and a number
\* with a letter before it.
PartSamples ==
    { <<>>, Str(<<"0">>), Str(<<"1">>), Str(<<"2">>), Str(<<"9">>), Str(<<"2", "2">>),
      Str(<<"2", "5">>), Str(<<"v", "1">>) }

VersionLabels ==
    UNION {{Join(ps, Ord(".")) : ps \in [1..n -> PartSamples]} : n \in 1..MaxParts}

InitVersions ==
    /\ versions \in VersionLabels \X VersionLabels
    /\ order = NotCompared
    /\ CodecIdle /\ DecodeIdle /\ RowIdle /\ CycleIdle /\ PageIdle /\ ChartIdle /\ LoaderIdle /\ RetryIdle /\ PairIdle

\* compareVersions(a, b) and compareVersions(b, a)
Compare ==
    /\ ~order.done
    /\ order' = [done |-> TRUE,
                 forward  |-> compareVersions(versions[1], versions[2]),
                 backward |-> compareVersions(versions[2], versions[1])]
    /\ UNCHANGED <<versions, codecVars, decodeVars, rowVars, cycleVars, pageVars, chartVars, loaderVars, retryVars, pairVars>>

NextVersions == Compare

SpecVersions == InitVersions /\ [][NextVersions]_vars

----------------------------------------------------------------------------
(* Loader: loadEOLData and clearEOLDataCache (lib/eol-data)                *)
(* Fetch k gives the data k: the file may differ from one fetch to the next. *)

\* Number of loadEOLData calls, and of clearEOLDataCache calls, in one run.
MaxCalls == 3

MaxClears == 1

\* A variant of the second test of loadEOLData that never finds a load in flight.
NeverInFlight(promise) == FALSE

\* cachePromise !== null
InFlight(promise) == promise # 0

\* A call that returned value, one that threw, one awaiting the promise of
\* fetch k; owner is the call that started the fetch, epoch the number of
\* cache clears before the call.
Call(state, k, owner, value) ==
    [state |-> state, fetch |-> k, owner |-> owner, result |-> value, epoch |-> cleared]

InitLoader ==
    /\ eolDataCache = 0 /\ cachePromise = 0 /\ fetches = <<>> /\ calls = <<>>
    /\ cleared = 0
    /\ CodecIdle /\ DecodeIdle /\ RowIdle /\ CycleIdle /\ PageIdle /\ ChartIdle /\ VersionIdle /\ RetryIdle /\ PairIdle

\* loadEOLData() up to its first await or return: the cached data is returned,
\* or the promise in flight, or a fetch is started and awaited.
LoadEOLData ==
    /\ Len(calls) < MaxCalls
    /\ IF eolDataCache # 0
       THEN /\ calls' = Append(calls, Call("returned", 0, FALSE, eolDataCache))
            /\ UNCHANGED <<cachePromise, fetches>>
       ELSE IF InFlight(cachePromise)
       THEN /\ calls' = Append(calls, Call("awaiting", cachePromise, FALSE, 0))
            /\ UNCHANGED <<cachePromise, fetches>>
       ELSE /\ fetches' = Append(fetches, [state |-> "pending", epoch |-> cleared])
            /\ cachePromise' = Len(fetches) + 1
            /\ calls' = Append(calls, Call("awaiting", Len(fetches) + 1, TRUE, 0))
    /\ UNCHANGED <<eolDataCache, cleared, codecVars, decodeVars, rowVars, cycleVars, pageVars,
                   chartVars, versionVars, retryVars, pairVars>>

\* fetchEOLDataFromFile resolves with the file's data.
FetchResolves(k) ==
    /\ fetches[k].state = "pending"
    /\ fetches' = [fetches EXCEPT ![k].state = "resolved"]
    /\ UNCHANGED <<eolDataCache, cachePromise, calls, cleared, codecVars, decodeVars, rowVars,
                   cycleVars, pageVars, chartVars, versionVars, retryVars, pairVars>>

\* fetchEOLDataFromFile rejects: the response is not ok, or its body no object.
FetchRejects(k) ==
    /\ fetches[k].state = "pending"
    /\ fetches' = [fetches EXCEPT ![k].state = "rejected"]
    /\ UNCHANGED <<eolDataCache, cachePromise, calls, cleared, codecVars, decodeVars, rowVars,
                   cycleVars, pageVars, chartVars, versionVars, retryVars, pairVars>>

\* A variant of the resumption whose catch block leaves cachePromise as it is.
ResumeKeepingPromise(c) ==
    /\ calls[c].state = "awaiting" /\ calls[c].owner
    /\ fetches[calls[c].fetch].state # "pending"
    /\ IF fetches[calls[c].fetch].state = "resolved"
       THEN /\ eolDataCache' = calls[c].fetch
            /\ calls' = [calls EXCEPT ![c].state = "returned", ![c].result = calls[c].fetch]
       ELSE /\ calls' = [calls EXCEPT ![c].state = "threw"]
            /\ UNCHANGED eolDataCache
    /\ UNCHANGED <<cachePromise, fetches, cleared, codecVars, decodeVars, rowVars, cycleVars,
                   pageVars, chartVars, versionVars, retryVars, pairVars>>

\* The call that started fetch k resumes after its await: the data is cached
\* and returned, or cachePromise is set to null and the error thrown.
Resume(c) ==
    /\ calls[c].state = "awaiting" /\ calls[c].owner
    /\ fetches[calls[c].fetch].state # "pending"
    /\ IF fetches[calls[c].fetch].state = "resolved"
       THEN /\ eolDataCache' = calls[c].fetch
            /\ calls' = [calls EXCEPT ![c].state = "returned", ![c].result = calls[c].fetch]
            /\ UNCHANGED cachePromise
       ELSE /\ cachePromise' = 0
            /\ calls' = [calls EXCEPT ![c].state = "threw"]
            /\ UNCHANGED eolDataCache
    /\ UNCHANGED <<fetches, cleared, codecVars, decodeVars, rowVars, cycleVars, pageVars,
                   chartVars, versionVars, retryVars, pairVars>>

\* A call that returned the promise in flight settles as that promise did.
Settle(c) ==
    /\ calls[c].state = "awaiting" /\ ~calls[c].owner
    /\ fetches[calls[c].fetch].state # "pending"
    /\ calls' = IF fetches[calls[c].fetch].state = "resolved"
                THEN [calls EXCEPT ![c].state = "returned", ![c].result = calls[c].fetch]
                ELSE [calls EXCEPT ![c].state = "threw"]
    /\ UNCHANGED <<eolDataCache, cachePromise, fetches, cleared, codecVars, decodeVars, rowVars,
                   cycleVars, pageVars, chartVars, versionVars, retryVars, pairVars>>

\* clearEOLDataCache()
ClearEOLDataCache ==
    /\ cleared < MaxClears
    /\ eolDataCache' = 0
    /\ cachePromise' = 0
    /\ cleared' = cleared + 1
    /\ UNCHANGED <<fetches, calls, codecVars, decodeVars, rowVars, cycleVars, pageVars,
                   chartVars, versionVars, retryVars, pairVars>>

NextLoader ==
    \/ LoadEOLData
    \/ \E k \in 1..Len(fetches) : FetchResolves(k)
    \/ \E k \in 1..Len(fetches) : FetchRejects(k)
    \/ \E c \in 1..Len(calls) : Resume(c)
    \/ \E c \in 1..Len(calls) : Settle(c)
    \/ ClearEOLDataCache

SpecLoader == InitLoader /\ [][NextLoader]_vars

----------------------------------------------------------------------------
(* Fetch script: fetchWithRetry and its two callers (scripts/fetch-eol-data) *)

\* The defaults of fetchWithRetry, which both callers leave in place.
maxRetries == 3

delayMs == 1000

\* What one attempt can come to: fetch rejects, the status is not ok,
\* response.json() rejects, or the body is parsed to some data.
Failures == {"Network error", "HTTP 500: Internal Server Error", "Unexpected token"}

Bodies == {"body 1", "body 2"}

Responses ==
    [ok : {TRUE}, data : Bodies] \cup [ok : {FALSE}, message : Failures]

Callers == {"fetchAllProducts", "fetchProductCycles"}

\* A variant of the loop test that never leaves the loop.
LoopsOn(attempt) == TRUE

\* attempt <= maxRetries
InLoop(attempt) == attempt <= maxRetries

\* attempt < maxRetries
RetriesLeft(attempt) == attempt < maxRetries

\* The error thrown after the loop: the number of attempts, the words saying
\* that the attempts all failed, and the last failure's message.
RetriesExhausted(lastError) ==
    [tries |-> maxRetries, text |-> "attempts all failed", message |-> lastError]

\* What the caller makes of fetchWithRetry's failure: fetchAllProducts throws
\* it again, fetchProductCycles returns the empty array.
CallerOnError(caller, error) ==
    IF caller = "fetchAllProducts" THEN [threw |-> error] ELSE [returned |-> "[]"]

\* The loop is entered with the next attempt, or left and the error thrown.
NextAttempt(r, attempt) ==
    IF InLoop(attempt)
    THEN [r EXCEPT !.pc = "fetch", !.attempt = attempt]
    ELSE [r EXCEPT !.pc = "done", !.attempt = attempt,
                   !.outcome = [threw |-> RetriesExhausted(r.lastError)],
                   !.callerOutcome = CallerOnError(r.caller, RetriesExhausted(r.lastError))]

InitRetry ==
    /\ \E caller \in Callers :
          retry = [pc |-> "fetch", caller |-> caller, attempt |-> 1, lastError |-> "none",
                   events |-> <<>>, outcome |-> [running |-> TRUE],
                   callerOutcome |-> [running |-> TRUE]]
    /\ CodecIdle /\ DecodeIdle /\ RowIdle /\ CycleIdle /\ PageIdle /\ ChartIdle /\ VersionIdle
    /\ LoaderIdle /\ PairIdle

\* One pass of the loop body up to its return or its wait: the fetch and the
\* parse of the body, and on a failure the bookkeeping of the catch block.
Attempt(response) ==
    /\ retry.pc = "fetch"
    /\ LET fetched == [retry EXCEPT !.events = Append(@, [fetch |-> response])]
       IN  IF response.ok
           THEN retry' = [fetched EXCEPT !.pc = "done",
                                         !.outcome = [returned |-> response.data],
                                         !.callerOutcome = [returned |-> response.data]]
           ELSE IF RetriesLeft(retry.attempt)
           THEN retry' = [fetched EXCEPT !.pc = "delay", !.lastError = response.message]
           ELSE retry' = NextAttempt([fetched EXCEPT !.lastError = response.message],
                                     retry.attempt + 1)
    /\ UNCHANGED <<codecVars, decodeVars, rowVars, cycleVars, pageVars, chartVars, versionVars,
                   loaderVars, pairVars>>

\* await delay(delayMs) is over: the timer of delayMs milliseconds fired.
Delay ==
    /\ retry.pc = "delay"
    /\ retry' = NextAttempt([retry EXCEPT !.events = Append(@, [delay |-> delayMs])],
                            retry.attempt + 1)
    /\ UNCHANGED <<codecVars, decodeVars, rowVars, cycleVars, pageVars, chartVars, versionVars,
                   loaderVars, pairVars>>

NextRetry ==
    \/ \E response \in Responses : Attempt(response)
    \/ Delay

SpecRetry == InitRetry /\ [][NextRetry]_vars

----------------------------------------------------------------------------
(* Address bar: URLSearchParams, getURLStateFromCurrentURL, useURLState *)

\* The percent-decoding of application/x-www-form-urlencoded parsing from
\* position i on: "%XX" gives the byte XX, any other "%" stays. Bytes are
\* decoded as UTF-8 without failing: a byte that starts no sequence gives U+FFFD.
RECURSIVE FormPercentDecode(_, _)
FormPercentDecode(s, i) ==
    LET at == {k \in i..Len(s) : s[k] = Ord("%")}
        k  == CHOOSE p \in at : \A q \in at : p <= q
    IN  IF at = {} THEN SubSeq(s, i, Len(s))
        ELSE IF ByteAt(s, k) >= 0
        THEN SubSeq(s, i, k - 1) \o <<IF ByteAt(s, k) < 128 THEN ByteAt(s, k) ELSE 65533>>
               \o FormPercentDecode(s, k + 3)
        ELSE SubSeq(s, i, k) \o FormPercentDecode(s, k + 1)

\* One name or value of a query string: "+" is a space, then percent-decoding.
FormDecode(s) ==
    FormPercentDecode([k \in 1..Len(s) |-> IF s[k] = Ord("+") THEN 32 ELSE s[k]], 1)

\* new URLSearchParams(query).get(name): [found, value]; found = FALSE is null.
UrlSearchParamsGet(query, name) ==
    LET body  == IF Len(query) > 0 /\ query[1] = Ord("?") THEN Tail(query) ELSE query
        pairs == SelectSeq(Split(body, Ord("&")), LAMBDA piece : piece # <<>>)
        nameOf(piece)  == FormDecode(Substring(piece, 0,
                              IF Includes(piece, Ord("=")) THEN IndexOf(piece, Ord("="))
                              ELSE Len(piece)))
        valueOf(piece) == IF Includes(piece, Ord("="))
                          THEN FormDecode(SubstringFrom(piece, IndexOf(piece, Ord("=")) + 1))
                          ELSE <<>>
        hits  == {k \in 1..Len(pairs) : nameOf(pairs[k]) = name}
    IN  IF hits = {} THEN [found |-> FALSE, value |-> <<>>]
        ELSE [found |-> TRUE, value |-> valueOf(pairs[CHOOSE k \in hits : \A h \in hits : k <= h])]

\* The result for an address bar with no 's' parameter (or an empty one).
NoParameter ==
    [done |-> TRUE, threw |-> FALSE, success |-> TRUE, hasData |-> TRUE,
     services |-> <<>>, error |-> "none"]

\* A variant of the end of getURLStateFromCurrentURL without its try/catch: an
\* Error of the decoder leaves the function.
DecodedOrThrown(state) ==
    IF state.ok
    THEN [done |-> TRUE, threw |-> FALSE, success |-> TRUE, hasData |-> TRUE,
          services |-> state.services, error |-> "none"]
    ELSE [done |-> TRUE, threw |-> TRUE, success |-> FALSE, hasData |-> FALSE,
          services |-> <<>>, error |-> "none"]

\* The end of getURLStateFromCurrentURL: the decoded state is returned, an Error
\* of the decoder is caught and reported as DECODE_ERROR.
DecodedOrCaught(state) ==
    IF state.ok
    THEN [done |-> TRUE, threw |-> FALSE, success |-> TRUE, hasData |-> TRUE,
          services |-> state.services, error |-> "none"]
    ELSE [done |-> TRUE, threw |-> FALSE, success |-> FALSE, hasData |-> FALSE,
          services |-> <<>>, error |-> "DECODE_ERROR"]

\* getURLStateFromCurrentURL() in a browser whose location.search is query:
\* {success, data?, error?}; error keeps the type of the error object.
getURLStateFromCurrentURL(query) ==
    LET dataParam == UrlSearchParamsGet(query, Str(<<"s">>))
    IN  IF ~dataParam.found \/ dataParam.value = <<>> THEN NoParameter
        ELSE DecodedOrCaught(decodeURLState(dataParam.value))

\* The initialising effect of useURLState once decodeURLState has run: the
\* services are set, or the catch block sets urlError; finally isURLLoaded.
HookDecoded(current, state) ==
    IF state.ok
    THEN [current EXCEPT !.services = state.services, !.isInitialized = TRUE,
                         !.isURLLoaded = TRUE]
    ELSE [current EXCEPT !.urlError = state.error, !.isURLLoaded = TRUE]

\* The initialising effect of useURLState, run with searchParams = query.
HookEffect(current, query) ==
    LET dataParam == UrlSearchParamsGet(query, Str(<<"s">>))
    IN  IF current.isInitialized THEN current
        ELSE IF ~dataParam.found \/ dataParam.value = <<>>
        THEN [current EXCEPT !.isInitialized = TRUE, !.isURLLoaded = TRUE]
        ELSE HookDecoded(current, decodeURLState(dataParam.value))

\* Query strings of the address bar: none, an 's' parameter, another parameter.
SearchInputs(r) ==
    {<<>>, Str(<<"?", "s", "=">>) \o r, Str(<<"?", "t", "=">>) \o r}

InitRead ==
    /\ \E r \in RawInputs : search \in SearchInputs(r)
    /\ stored = NoItem /\ urlRead = NotRead /\ loadResult = NotLoaded /\ hook = HookInitial /\ page = PageInitial
    /\ edit = NoEdit
    /\ CodecIdle /\ DecodeIdle /\ RowIdle /\ CycleIdle /\ ChartIdle /\ VersionIdle /\ LoaderIdle /\ RetryIdle /\ PairIdle

\* getURLStateFromCurrentURL()
ReadURL ==
    /\ ~urlRead.done
    /\ urlRead' = getURLStateFromCurrentURL(search)
    /\ UNCHANGED <<search, stored, loadResult, hook, page, edit, codecVars, decodeVars, rowVars, cycleVars, chartVars, versionVars, loaderVars, retryVars, pairVars>>

\* The effect of useURLState at mount.
MountHook ==
    /\ ~hook.isURLLoaded
    /\ hook' = HookEffect(hook, search)
    /\ UNCHANGED <<search, stored, urlRead, loadResult, page, edit, codecVars, decodeVars, rowVars, cycleVars, chartVars, versionVars, loaderVars, retryVars, pairVars>>

NextRead == ReadURL \/ MountHook

SpecRead == InitRead /\ [][NextRead]_vars

----------------------------------------------------------------------------
(* Edits: setURLState, clearURLState, useURLState.setServices,             *)
(* handleServicesChange and the local storage it saves to                  *)

\* Characters the application/x-www-form-urlencoded serializer leaves alone:
\* A-Z a-z 0-9 * - . _
FormUnreserved == (65..90) \cup (97..122) \cup (48..57) \cup {42, 45, 46, 95}

\* One character as URLSearchParams serializes it: a space is "+", any other
\* character outside FormUnreserved is the percent-encoded bytes of its UTF-8 form.
FormEscapeChar(c) ==
    IF c \in FormUnreserved THEN <<c>>
    ELSE IF c = 32 THEN <<Ord("+")>>
    ELSE IF c < 128 THEN PercentByte(c)
    ELSE EscapeChar(c)

\* The serialization of a string: that of its characters, in order (computed
\* by halves).
RECURSIVE FormEncode(_)
FormEncode(s) ==
    IF Len(s) = 0 THEN <<>>
    ELSE IF Len(s) = 1 THEN FormEscapeChar(s[1])
    ELSE FormEncode(SubSeq(s, 1, Len(s) \div 2))
           \o FormEncode(SubSeq(s, Len(s) \div 2 + 1, Len(s)))

\* new URL(location.href).searchParams: the list of decoded [name, value] pairs.
UrlSearchParams(query) ==
    LET body  == IF Len(query) > 0 /\ query[1] = Ord("?") THEN Tail(query) ELSE query
        pairs == SelectSeq(Split(body, Ord("&")), LAMBDA piece : piece # <<>>)
        cut(piece) == IF Includes(piece, Ord("=")) THEN IndexOf(piece, Ord("="))
                      ELSE Len(piece)
    IN  [k \in 1..Len(pairs) |->
            [name  |-> FormDecode(Substring(pairs[k], 0, cut(pairs[k]))),
             value |-> FormDecode(SubstringFrom(pairs[k], cut(pairs[k]) + 1))]]

\* searchParams.delete(name)
SearchParamsDelete(pairs, name) == SelectSeq(pairs, LAMBDA p : p.name # name)

\* searchParams.set(name, value): the first pair of that name takes the value,
\* the others of that name are removed; without one, the pair is appended.
SearchParamsSet(pairs, name, value) ==
    IF \A k \in 1..Len(pairs) : pairs[k].name # name
    THEN Append(pairs, [name |-> name, value |-> value])
    ELSE LET first == CHOOSE k \in 1..Len(pairs) :
                          /\ pairs[k].name = name
                          /\ \A h \in 1..(k - 1) : pairs[h].name # name
         IN  SubSeq(pairs, 1, first - 1) \o <<[name |-> name, value |-> value]>>
               \o SearchParamsDelete(SubSeq(pairs, first + 1, Len(pairs)), name)

\* The query string of url.toString() after the search parameters changed.
SearchOf(pairs) ==
    IF Len(pairs) = 0 THEN <<>>
    ELSE <<Ord("?")>> \o Join([k \in 1..Len(pairs) |->
                                 FormEncode(pairs[k].name) \o <<Ord("=")>>
                                   \o FormEncode(pairs[k].value)], Ord("&"))

\* clearURLState(): the address bar without the 's' parameter.
clearURLState(query) == SearchOf(SearchParamsDelete(UrlSearchParams(query), Str(<<"s">>)))

\* setURLState once encodeURLState has run: the address bar is replaced, or the
\* thrown Error is caught and typed by its message; [search, success, error].
UrlStateSet(query, enc) ==
    IF ~enc.ok
    THEN [search |-> query, success |-> FALSE,
          error |-> IF enc.error = "exceeds maximum allowed length" THEN "URL_TOO_LONG"
                    ELSE "ENCODE_ERROR"]
    ELSE IF enc.value = <<>>
    THEN [search |-> clearURLState(query), success |-> TRUE, error |-> "none"]
    ELSE [search |-> SearchOf(SearchParamsSet(UrlSearchParams(query), Str(<<"s">>), enc.value)),
          success |-> TRUE, error |-> "none"]

\* setURLState({version: 1, services: svcs}) with location.search = query.
setURLState(query, svcs) == UrlStateSet(query, encodeURLState(svcs))

\* Values of JSON.parse: strings, arrays, objects (a record of the fields
\* present), null, numbers; "SyntaxError" stands for text that does not parse.
JsonString(s) == [t |-> "string", s |-> s]

JsonArray(items) == [t |-> "array", items |-> items]

JsonObject(fields) == [t |-> "object", fields |-> fields]

JsonOther(t) == [t |-> t]

\* localStorage holding text: the item is kept as what JSON.parse makes of it.
Item(json) == [kind |-> "text", value |-> json]

\* JSON.stringify(services), as JSON.parse reads it back.
TechnologyJson(tech) ==
    JsonObject([id |-> JsonString(tech.id), name |-> JsonString(tech.name),
                currentVersion |-> JsonString(tech.currentVersion)])

ServiceJson(service) ==
    JsonObject([id |-> JsonString(service.id), name |-> JsonString(service.name),
                technologies |-> JsonArray([j \in 1..Len(service.technologies) |->
                                              TechnologyJson(service.technologies[j])])])

ServicesJson(svcs) == JsonArray([i \in 1..Len(svcs) |-> ServiceJson(svcs[i])])

\* What localStorage.setItem may do: store the text, or throw.
StorageFaults == {"none", "QuotaExceededError", "access denied", "unavailable", "other"}

\* saveToLocalStorage(svcs) when setItem behaves as fault says: [stored, success, error].
saveToLocalStorage(item, svcs, fault) ==
    IF fault = "none"
    THEN [stored |-> Item(ServicesJson(svcs)), success |-> TRUE, error |-> "none"]
    ELSE [stored |-> item, success |-> FALSE,
          error |-> CASE fault = "QuotaExceededError" -> "QUOTA_EXCEEDED"
                      [] fault = "access denied"      -> "ACCESS_DENIED"
                      [] fault = "unavailable"        -> "UNAVAILABLE"
                      [] OTHER                        -> "ACCESS_DENIED"]

\* saveDataWithNotification(svcs): [stored, success, message].
saveDataWithNotification(item, svcs, fault) ==
    LET result == saveToLocalStorage(item, svcs, fault)
    IN  [stored |-> result.stored, success |-> result.success,
         message |-> CASE result.success                   -> "none"
                       [] result.error = "QUOTA_EXCEEDED"  -> "storage quota exceeded"
                       [] result.error = "ACCESS_DENIED"   -> "cannot save in private browsing"
                       [] result.error = "UNAVAILABLE"     -> "local storage unavailable, share by URL"
                       [] OTHER                            -> "saving failed"]

\* The notices about a list too large for the URL: urlError of the hook, and the
\* notification of the page.
TooLongError == "data too large to be saved in the URL"

TooLongNotification == "data too large to be saved in the URL, saved in local storage only"

\* useURLState.setServices(newServices) once setURLState / clearURLState has
\* run with outcome result: the state of the hook.
HookSetServices(current, newServices, result) ==
    IF Len(newServices) > 0 /\ ~result.success /\ result.error = "URL_TOO_LONG"
    THEN [current EXCEPT !.services = newServices, !.urlError = TooLongError]
    ELSE [current EXCEPT !.services = newServices]

\* HomeContent renders the error screen, with nothing but a reload button, in
\* place of the header, the form and the chart.
ErrorScreen(current) == current.urlError # "none"

\* A variant of handleServicesChange in which a failed save leaves the notice
\* about the URL in place.
NotificationKeepingFirst(current, newServices, result, saved) ==
    IF Len(newServices) > 0 /\ ~result.success /\ result.error = "URL_TOO_LONG"
    THEN TooLongNotification
    ELSE IF ~saved.success /\ saved.message # "none" THEN saved.message
    ELSE current.notification

\* The notification handleServicesChange leaves: showNotification replaces the
\* notification, so the notice of a failed save replaces the one about the URL.
NotificationAfter(current, newServices, result, saved) ==
    IF ~saved.success /\ saved.message # "none" THEN saved.message
    ELSE IF Len(newServices) > 0 /\ ~result.success /\ result.error = "URL_TOO_LONG"
    THEN TooLongNotification
    ELSE current.notification

\* The address bar after a change handler ran on newServices.
SearchAfter(query, newServices, result) ==
    IF Len(newServices) > 0 THEN result.search ELSE clearURLState(query)

\* Number of name and version fields a list edited in the form may hold.
MaxEditFields == 3

\* The lists one edit of the form makes of svcs: a service added, a technology
\* added to the last service, the last service removed.
WithService(svcs, n) ==
    Append(svcs, [id |-> Str(<<"s">>) \o Digits(Len(svcs)), name |-> n, technologies |-> <<>>])

WithTechnology(svcs, n, v) ==
    LET k == Len(svcs)
        t == [id |-> Str(<<"t">>) \o Digits(Len(svcs[k].technologies)),
              name |-> n, currentVersion |-> v]
    IN  [svcs EXCEPT ![k].technologies = Append(@, t)]

Edits(svcs, pool) ==
    {WithService(svcs, n) : n \in {m \in pool : FieldCount(svcs) + 1 <= MaxEditFields}}
    \cup {WithTechnology(svcs, n, n) :
            n \in {m \in pool : Len(svcs) > 0 /\ FieldCount(svcs) + 2 <= MaxEditFields}}
    \cup {SubSeq(svcs, 1, Len(svcs) - 1) : k \in {h \in {1} : Len(svcs) > 0}}

\* The form's fields hold a short text or one that alone exceeds the limit.
InitEdit ==
    /\ fieldPool = {Str(<<"x">>), Filler(MAX_URL_LENGTH - 4)}
    /\ services = <<>> /\ encoded = NotEncoded /\ decoded = NotDecoded
    /\ search \in {<<>>, Str(<<"?", "t", "=", "x">>)}
    /\ stored = NoItem /\ urlRead = NotRead /\ loadResult = NotLoaded /\ hook = HookInitial /\ page = PageInitial
    /\ edit = NoEdit
    /\ DecodeIdle /\ RowIdle /\ CycleIdle /\ ChartIdle /\ VersionIdle /\ LoaderIdle /\ RetryIdle /\ PairIdle

\* setServices of useURLState, with result the outcome of its setURLState call.
SetServicesStep(newServices, result) ==
    /\ hook' = HookSetServices(hook, newServices, result)
    /\ search' = SearchAfter(search, newServices, result)
    /\ edit' = [by |-> "hook", services |-> newServices,
                updated |-> (Len(newServices) = 0 \/ result.success)]
    /\ UNCHANGED <<stored, urlRead, loadResult, page, codecVars, decodeVars, rowVars, cycleVars, chartVars, versionVars, loaderVars, retryVars, pairVars>>

\* The form calls setServices of useURLState with an edited list.
HookEdit(newServices) ==
    /\ edit.by \in {"none", "hook"}
    /\ SetServicesStep(newServices, setURLState(search, newServices))

\* handleServicesChange of the page, with result the outcome of its setURLState
\* call and saved the outcome of its saveDataWithNotification call.
ServicesChangeStep(newServices, result, saved) ==
    /\ page' = [page EXCEPT
                   !.services = newServices,
                   !.notification = NotificationAfter(page, newServices, result, saved)]
    /\ search' = SearchAfter(search, newServices, result)
    /\ stored' = saved.stored
    /\ edit' = [by |-> "page", services |-> newServices,
                updated |-> (Len(newServices) = 0 \/ result.success)]
    /\ UNCHANGED <<urlRead, loadResult, hook, codecVars, decodeVars, rowVars, cycleVars, chartVars, versionVars, loaderVars, retryVars, pairVars>>

\* The form calls handleServicesChange of the page with an edited list; the
\* save to local storage meets fault.
PageEdit(newServices, fault) ==
    /\ edit.by \in {"none", "page"}
    /\ ServicesChangeStep(newServices, setURLState(search, newServices),
                          saveDataWithNotification(stored, newServices, fault))

\* The timer of showNotification fires: setNotification(null).
NotificationTimeout ==
    /\ page.notification # "none"
    /\ page' = [page EXCEPT !.notification = "none"]
    /\ UNCHANGED <<search, stored, urlRead, loadResult, hook, edit, codecVars, decodeVars, rowVars, cycleVars, chartVars, versionVars, loaderVars, retryVars, pairVars>>

NextEdit ==
    \/ \E newServices \in Edits(hook.services, fieldPool) : HookEdit(newServices)
    \/ \E newServices \in Edits(page.services, fieldPool), fault \in StorageFaults :
           PageEdit(newServices, fault)
    \/ NotificationTimeout

SpecEdit == InitEdit /\ [][NextEdit]_vars

----------------------------------------------------------------------------
(* Form: the edits of ServiceForm, and the clear buttons *)

\* Services and technologies per service the form is taken to.
MaxFormServices == 2

MaxFormTechnologies == 1

\* What the user types into a field: nothing, or text with a space.
FormFields == {<<>>, Str(<<"a", " ", "b">>)}

\* The technology addTechnology and addNewService create (ids are opaque).
EmptyTechnology(k) == [id |-> Str(<<"t">>) \o Digits(k), name |-> <<>>, currentVersion |-> <<>>]

addNewService(svcs) ==
    Append(svcs, [id |-> Str(<<"s">>) \o Digits(Len(svcs)),
                  name |-> Str(<<"s", "e", "r", "v", "i", "c", "e">>) \o Digits(Len(svcs) + 1),
                  technologies |-> <<EmptyTechnology(0)>>])

updateServiceName(svcs, i, name) == [svcs EXCEPT ![i].name = name]

addTechnology(svcs, i) ==
    [svcs EXCEPT ![i].technologies = Append(@, EmptyTechnology(Len(@)))]

removeTechnology(svcs, i, j) ==
    [svcs EXCEPT ![i].technologies = SubSeq(@, 1, j - 1) \o SubSeq(@, j + 1, Len(@))]

\* updateTechnology with what handleTechNameChange / handleVersionChange pass.
updateTechnologyName(svcs, i, j, name) == [svcs EXCEPT ![i].technologies[j].name = name]

updateTechnologyVersion(svcs, i, j, version) ==
    [svcs EXCEPT ![i].technologies[j].currentVersion = version]

removeService(svcs, i) == SubSeq(svcs, 1, i - 1) \o SubSeq(svcs, i + 1, Len(svcs))

\* The lists the form passes to onServicesChange when it shows svcs; any
\* service can be selected for editing.
FormEdits(svcs, pool) ==
    {addNewService(svcs) : k \in {h \in {1} : Len(svcs) < MaxFormServices}}
    \cup {updateServiceName(svcs, i, n) : i \in 1..Len(svcs), n \in pool}
    \cup {addTechnology(svcs, i) :
            i \in {h \in 1..Len(svcs) : Len(svcs[h].technologies) < MaxFormTechnologies}}
    \cup UNION {{removeTechnology(svcs, i, j) : j \in 1..Len(svcs[i].technologies)} :
                  i \in 1..Len(svcs)}
    \cup UNION {{updateTechnologyName(svcs, i, j, n) :
                    j \in 1..Len(svcs[i].technologies), n \in pool} : i \in 1..Len(svcs)}
    \cup UNION {{updateTechnologyVersion(svcs, i, j, n) :
                    j \in 1..Len(svcs[i].technologies), n \in pool} : i \in 1..Len(svcs)}
    \cup {removeService(svcs, i) : i \in 1..Len(svcs)}

\* clearLocalStorage() when removeItem behaves as fault says: [stored, success].
clearLocalStorage(item, fault) ==
    IF fault = "none" THEN [stored |-> NoItem, success |-> TRUE]
    ELSE [stored |-> item, success |-> FALSE]

InitForm ==
    /\ fieldPool = FormFields
    /\ services = <<>> /\ encoded = NotEncoded /\ decoded = NotDecoded
    /\ search \in {<<>>, Str(<<"?", "t", "=", "x">>),
                   Str(<<"?", "s", "=", "x", "(", ")", "&", "t", "=", "x">>)}
    /\ stored = NoItem /\ urlRead = NotRead /\ loadResult = NotLoaded /\ hook = HookInitial /\ page = PageInitial
    /\ edit = NoEdit
    /\ DecodeIdle /\ RowIdle /\ CycleIdle /\ ChartIdle /\ VersionIdle /\ LoaderIdle /\ RetryIdle /\ PairIdle

\* clearServices of useURLState.
HookClear ==
    /\ edit.by \in {"none", "hook"}
    /\ hook' = [hook EXCEPT !.services = <<>>]
    /\ search' = clearURLState(search)
    /\ edit' = [by |-> "hook", services |-> <<>>, updated |-> TRUE]
    /\ UNCHANGED <<stored, urlRead, loadResult, page, codecVars, decodeVars, rowVars, cycleVars,
                   chartVars, versionVars, loaderVars, retryVars, pairVars>>

\* handleClearData of the page, confirmed by the user; the removal from local
\* storage meets fault.
PageClear(fault) ==
    /\ edit.by \in {"none", "page"}
    /\ page' = [page EXCEPT
                   !.services = <<>>,
                   !.notification = IF clearLocalStorage(stored, fault).success
                                    THEN "all data cleared" ELSE "clearing failed"]
    /\ search' = clearURLState(search)
    /\ stored' = clearLocalStorage(stored, fault).stored
    /\ edit' = [by |-> "page", services |-> <<>>, updated |-> TRUE]
    /\ UNCHANGED <<urlRead, loadResult, hook, codecVars, decodeVars, rowVars, cycleVars,
                   chartVars, versionVars, loaderVars, retryVars, pairVars>>

NextForm ==
    \/ \E newServices \in FormEdits(hook.services, fieldPool) : HookEdit(newServices)
    \/ \E newServices \in FormEdits(page.services, fieldPool) : PageEdit(newServices, "none")
    \/ HookClear
    \/ \E fault \in {"none", "other"} : PageClear(fault)

SpecForm == InitForm /\ [][NextForm]_vars

----------------------------------------------------------------------------
(* Address bar writes: setURLState on lists near the length limit *)

\* Field values: short ones, and ones that bring "?s=" and the encoded list
\* just under, to, and over MAX_URL_LENGTH.
WriteFields ==
    { Str(<<"x">>), Str(<<"a", " ", "b">>), Filler(MAX_URL_LENGTH - 11),
      Filler(MAX_URL_LENGTH - 5), Filler(MAX_URL_LENGTH - 4) }

\* Lists of one service with at most one technology.
WriteLists ==
    {<<>>}
    \cup {WithService(<<>>, n) : n \in WriteFields}
    \cup {WithTechnology(WithService(<<>>, n), m, v) :
            n \in WriteFields, m \in WriteFields, v \in WriteFields}

InitWrite ==
    /\ services \in WriteLists
    /\ fieldPool = {} /\ encoded = NotEncoded /\ decoded = NotDecoded
    /\ search \in {<<>>, Str(<<"?", "t", "=", "x">>)}
    /\ stored = NoItem /\ urlRead = NotRead /\ loadResult = NotLoaded /\ hook = HookInitial /\ page = PageInitial
    /\ edit = NoEdit
    /\ DecodeIdle /\ RowIdle /\ CycleIdle /\ ChartIdle /\ VersionIdle /\ LoaderIdle /\ RetryIdle /\ PairIdle

\* setURLState({version: 1, services}) with outcome result.
WriteStep(result) ==
    /\ search' = result.search
    /\ edit' = [by |-> "setURLState", services |-> services, updated |-> result.success]
    /\ UNCHANGED <<stored, urlRead, loadResult, hook, page, codecVars, decodeVars, rowVars,
                   cycleVars, chartVars, versionVars, loaderVars, retryVars, pairVars>>

WriteURL ==
    /\ edit.by = "none"
    /\ WriteStep(setURLState(search, services))

NextWrite == WriteURL

SpecWrite == InitWrite /\ [][NextWrite]_vars

----------------------------------------------------------------------------
(* Pairs: encodeURLState on two service lists *)

\* Field values: plain text, a separator, the escape of that separator, and
\* text with a parenthesis.
PairFields ==
    { Str(<<"x">>), Str(<<":">>), Str(<<"%", "3", "A">>), Str(<<"x", "(", "y">>) }

\* Lists of one service with at most one technology, and of two services.
PairLists ==
    {<<>>}
    \cup {WithService(<<>>, n) : n \in PairFields}
    \cup {WithTechnology(WithService(<<>>, n), m, v) :
            n \in PairFields, m \in PairFields, v \in PairFields}
    \cup {WithService(WithService(<<>>, n), m) : n \in PairFields, m \in PairFields}

InitPairs ==
    /\ services \in PairLists /\ other \in PairLists
    /\ fieldPool = {} /\ encoded = NotEncoded /\ decoded = NotDecoded
    /\ otherEncoded = NotEncoded
    /\ DecodeIdle /\ RowIdle /\ CycleIdle /\ PageIdle /\ ChartIdle /\ VersionIdle /\ LoaderIdle /\ RetryIdle

\* encodeURLState on each of the two lists.
EncodeBoth ==
    /\ encoded = NotEncoded
    /\ encoded' = encodeURLState(services)
    /\ otherEncoded' = encodeURLState(other)
    /\ UNCHANGED <<fieldPool, services, decoded, other, decodeVars, rowVars, cycleVars, pageVars,
                   chartVars, versionVars, loaderVars, retryVars>>

NextPairs == EncodeBoth

SpecPairs == InitPairs /\ [][NextPairs]_vars

----------------------------------------------------------------------------
(* Sharing: getShareableURL, and the URL opened in a fresh session *)

\* Field values: plain text, text with a space, with a separator, with a plus sign.
ShareFields ==
    { Str(<<"x">>), Str(<<"a", " ", "b">>), Str(<<"x", ":", "y">>), Str(<<"x", "+", "y">>) }

\* Lists of one service with at most one technology.
ShareLists ==
    {<<>>}
    \cup {WithService(<<>>, n) : n \in ShareFields}
    \cup {WithTechnology(WithService(<<>>, n), m, v) :
            n \in ShareFields, m \in ShareFields, v \in ShareFields}

\* getShareableURL() of useURLState on the list svcs: the query string of the
\* URL returned (the part before it is the page's own address), or the Error of
\* encodeURLState.
getShareableURL(svcs) ==
    IF Len(svcs) = 0 THEN [ok |-> TRUE, search |-> <<>>]
    ELSE IF ~encodeURLState(svcs).ok THEN [ok |-> FALSE, search |-> <<>>]
    ELSE IF encodeURLState(svcs).value = <<>> THEN [ok |-> TRUE, search |-> <<>>]
    ELSE [ok |-> TRUE, search |-> Str(<<"?", "s", "=">>) \o encodeURLState(svcs).value]

InitShare ==
    /\ services \in ShareLists
    /\ fieldPool = {} /\ encoded = NotEncoded /\ decoded = NotDecoded
    /\ search = <<>>
    /\ stored = NoItem /\ urlRead = NotRead /\ loadResult = NotLoaded /\ hook = HookInitial /\ page = PageInitial
    /\ edit = NoEdit
    /\ DecodeIdle /\ RowIdle /\ CycleIdle /\ ChartIdle /\ VersionIdle /\ LoaderIdle /\ RetryIdle /\ PairIdle

\* The user copies the URL getShareableURL returns and it is entered into the
\* address bar of a fresh session.
ShareURL ==
    /\ edit.by = "none"
    /\ search' = getShareableURL(services).search
    /\ edit' = [by |-> "getShareableURL", services |-> services,
                updated |-> getShareableURL(services).ok]
    /\ UNCHANGED <<stored, urlRead, loadResult, hook, page, codecVars, decodeVars, rowVars,
                   cycleVars, chartVars, versionVars, loaderVars, retryVars, pairVars>>

\* The fresh session mounts useURLState on the shared URL.
OpenShared ==
    /\ edit.by = "getShareableURL" /\ edit.updated
    /\ ~hook.isURLLoaded
    /\ hook' = HookEffect(hook, search)
    /\ UNCHANGED <<search, stored, urlRead, loadResult, page, edit, codecVars, decodeVars,
                   rowVars, cycleVars, chartVars, versionVars, loaderVars, retryVars, pairVars>>

NextShare == ShareURL \/ OpenShared

SpecShare == InitShare /\ [][NextShare]_vars

----------------------------------------------------------------------------
(* Start-up: loadFromLocalStorage, loadDataWithPriority, initializeApp *)

\* The JavaScript value JSON.parse gives: a string is its characters, an array
\* the sequence of its elements, an object the record of its properties.
RECURSIVE FromJson(_)
FromJson(json) ==
    CASE json.t = "string" -> json.s
      [] json.t = "array"  -> [k \in 1..Len(json.items) |-> FromJson(json.items[k])]
      [] json.t = "object" -> [f \in DOMAIN json.fields |-> FromJson(json.fields[f])]
      [] OTHER             -> json

\* typeof service[f] === 'string'
HasString(json, f) ==
    json.t = "object" /\ f \in DOMAIN json.fields /\ json.fields[f].t = "string"

\* A variant of the checks that also requires every technology to have string
\* id, name and currentVersion.
IsServiceWithTechnologies(json) ==
    /\ HasString(json, "id") /\ HasString(json, "name")
    /\ "technologies" \in DOMAIN json.fields
    /\ json.fields["technologies"].t = "array"
    /\ \A k \in 1..Len(json.fields["technologies"].items) :
          /\ HasString(json.fields["technologies"].items[k], "id")
          /\ HasString(json.fields["technologies"].items[k], "name")
          /\ HasString(json.fields["technologies"].items[k], "currentVersion")

\* The checks of loadFromLocalStorage on one element of the parsed array; null,
\* numbers, strings and booleans are no objects, an array has no id.
IsServiceShaped(json) ==
    /\ HasString(json, "id") /\ HasString(json, "name")
    /\ "technologies" \in DOMAIN json.fields
    /\ json.fields["technologies"].t = "array"

\* The catch block of loadFromLocalStorage: isLocalStorageAvailable() decides
\* between UNAVAILABLE and INVALID_DATA; data is [].
LoadFailed(writable) ==
    [done |-> TRUE, success |-> FALSE, data |-> <<>>,
     error |-> IF writable THEN "INVALID_DATA" ELSE "UNAVAILABLE"]

\* loadFromLocalStorage() with the item under the key, getItem throwing or not
\* (reads), and setItem working or not (writable): [success, data, error].
loadFromLocalStorage(item, reads, writable) ==
    IF ~reads THEN LoadFailed(writable)
    ELSE IF item.kind = "null" \/ item.value.t = "empty text"
        THEN [done |-> TRUE, success |-> TRUE, data |-> <<>>, error |-> "none"]
    ELSE IF item.value.t # "array" THEN LoadFailed(writable)
    ELSE IF \E k \in 1..Len(item.value.items) : ~IsServiceShaped(item.value.items[k])
        THEN LoadFailed(writable)
    ELSE [done |-> TRUE, success |-> TRUE, data |-> FromJson(item.value), error |-> "none"]

\* loadDataWithPriority(urlServices) once loadFromLocalStorage has run; hasUrl
\* is FALSE for the call without an argument.
loadDataWithPriority(hasUrl, urlServices, loaded) ==
    IF hasUrl /\ Len(urlServices) > 0 THEN urlServices ELSE loaded.data

\* A variant of the choice of initializeApp that takes the stored list when
\* there is one.
InitialServicesStoredFirst(urlStateResult, loaded) ==
    IF Len(loaded.data) > 0 THEN loaded.data
    ELSE IF urlStateResult.success /\ urlStateResult.hasData THEN urlStateResult.services
    ELSE <<>>

\* initialServices of initializeApp: the list of the URL when it was read, else
\* loadDataWithPriority().
InitialServices(urlStateResult, loaded) ==
    IF urlStateResult.success /\ urlStateResult.hasData THEN urlStateResult.services
    ELSE loadDataWithPriority(FALSE, <<>>, loaded)

\* initializeApp once loadEOLData has settled (catalogLoaded = FALSE: it rejected).
Initialized(current, catalogLoaded, urlStateResult, loaded) ==
    IF ~catalogLoaded
    THEN [current EXCEPT !.error = "initialization failed", !.isLoading = FALSE]
    ELSE [current EXCEPT !.services = InitialServices(urlStateResult, loaded),
                         !.isLoading = FALSE]

\* Values localStorage may hold under the key: lists the application saved,
\* and text of other shapes.
StoredTechnologies ==
    { <<>>,
      <<TechnologyJson([id |-> Str(<<"t">>), name |-> Str(<<"y">>),
                        currentVersion |-> Str(<<"1">>)])>>,
      <<JsonObject([id |-> JsonString(Str(<<"t">>)), name |-> JsonString(Str(<<"y">>))])>>,
      <<JsonObject([id |-> JsonOther("number"), name |-> JsonString(Str(<<"y">>)),
                    currentVersion |-> JsonString(Str(<<"1">>))])>>,
      <<JsonOther("null")>> }

StoredServices ==
    {JsonObject([id |-> JsonString(Str(<<"s">>)), name |-> JsonString(Str(<<"y">>)),
                 technologies |-> JsonArray(ts)]) : ts \in StoredTechnologies}
    \cup { JsonObject([id |-> JsonString(Str(<<"s">>)), name |-> JsonString(Str(<<"y">>))]),
           JsonObject([id |-> JsonString(Str(<<"s">>)), name |-> JsonString(Str(<<"y">>)),
                       technologies |-> JsonOther("null")]),
           JsonObject([id |-> JsonOther("number"), name |-> JsonString(Str(<<"y">>)),
                       technologies |-> JsonArray(<<>>)]),
           JsonObject([id |-> JsonString(Str(<<"s">>)), technologies |-> JsonArray(<<>>)]),
           JsonObject([invalid |-> JsonString(Str(<<"s">>))]),
           JsonArray(<<>>), JsonOther("null"), JsonOther("number"), JsonString(Str(<<"s">>)) }

\* Number of elements of a stored array.
MaxStored == 2

StoredItems ==
    {NoItem} \cup {Item(JsonOther(t)) : t \in {"empty text", "SyntaxError", "null", "number"}}
    \cup {Item(JsonObject([invalid |-> JsonString(Str(<<"s">>))]))}
    \cup UNION {{Item(JsonArray(es)) : es \in [1..n -> StoredServices]} : n \in 0..MaxStored}

\* Query strings at start-up: none, lists of one and two services, an empty
\* parameter, a blank one, text that does not decode, another parameter.
StartSearches ==
    { <<>>,
      Str(<<"?", "s", "=", "x", "(", ")">>),
      Str(<<"?", "s", "=", "x", "(", "y", ":", "1", ")">>),
      Str(<<"?", "s", "=", "x", "(", ")", ";", "y", "(", ")">>),
      Str(<<"?", "s", "=">>), Str(<<"?", "s", "=", "+">>),
      Str(<<"?", "s", "=", "x">>), Str(<<"?", "s", "=", "x", "(", "y", ")">>),
      Str(<<"?", "t", "=", "x", "(", ")">>) }

InitStart ==
    /\ search \in StartSearches
    /\ stored \in StoredItems
    /\ urlRead = NotRead /\ loadResult = NotLoaded
    /\ hook = HookInitial /\ page = PageInitial /\ edit = NoEdit
    /\ CodecIdle /\ DecodeIdle /\ RowIdle /\ CycleIdle /\ ChartIdle /\ VersionIdle /\ LoaderIdle /\ RetryIdle /\ PairIdle

\* loadFromLocalStorage()
LoadStored(reads, writable) ==
    /\ ~loadResult.done
    /\ loadResult' = loadFromLocalStorage(stored, reads, writable)
    /\ UNCHANGED <<search, stored, urlRead, hook, page, edit, codecVars, decodeVars, rowVars,
                   cycleVars, chartVars, versionVars, loaderVars, retryVars, pairVars>>

\* The effect of the page at mount: initializeApp, from the settling of
\* loadEOLData to setIsLoading(false).
InitializeApp(catalogLoaded, reads, writable) ==
    /\ page.isLoading
    /\ page' = Initialized(page, catalogLoaded, getURLStateFromCurrentURL(search),
                           loadFromLocalStorage(stored, reads, writable))
    /\ UNCHANGED <<search, stored, urlRead, loadResult, hook, edit, codecVars, decodeVars,
                   rowVars, cycleVars, chartVars, versionVars, loaderVars, retryVars, pairVars>>

NextStart ==
    \/ \E reads \in BOOLEAN, writable \in BOOLEAN : LoadStored(reads, writable)
    \/ \E catalogLoaded \in BOOLEAN, reads \in BOOLEAN, writable \in BOOLEAN :
          InitializeApp(catalogLoaded, reads, writable)

SpecStart == InitStart /\ [][NextStart]_vars

----------------------------------------------------------------------------
(* Properties of the URL state codec *)

\* Two service lists agree on name, technologies[].name and
\* technologies[].currentVersion, element by element (ids are not compared).
SameFields(a, b) ==
    /\ Len(a) = Len(b)
    /\ \A i \in 1..Len(a) :
        /\ a[i].name = b[i].name
        /\ Len(a[i].technologies) = Len(b[i].technologies)
        /\ \A j \in 1..Len(a[i].technologies) :
            /\ a[i].technologies[j].name = b[i].technologies[j].name
            /\ a[i].technologies[j].currentVersion = b[i].technologies[j].currentVersion

\* C1: for every service list of printable names and versions whose encoding
\* fits the length limit, decoding the encoding returns services equal to the
\* list on name, technologies[].name and technologies[].currentVersion, in order.
RoundTrip ==
    (encoded.ok /\ decoded # NotDecoded) =>
        (decoded.ok /\ SameFields(decoded.services, services))

\* C7: encodeURLState fails with the "URL too long" error exactly when "?s="
\* followed by the encoded state is longer than 2048 characters, and returns the
\* encoded state when that string has 2048 characters or fewer.
TooLongExactlyOverLimit ==
    encoded # NotEncoded =>
        IF Len(services) > 0 /\ 3 + Len(CompactForm(services)) > 2048
        THEN ~encoded.ok /\ encoded.error = "exceeds maximum allowed length"
        ELSE encoded.ok /\ encoded.value = CompactForm(services)

\* A query string of exactly 2048 characters has been encoded.
EncodedAtLimit ==
    encoded.ok /\ 3 + Len(encoded.value) = 2048

\* The non-empty segments of the text of the parameter.
SegmentsOf(text) ==
    LET parts == Split(text, Ord(";"))
    IN  SelectSeq([k \in 1..Len(parts) |-> Trim(parts[k])], LAMBDA seg : seg # <<>>)

\* The non-empty technology entries of a segment: the pieces, between commas, of
\* the text from its first "(" to its last ")".
EntriesOf(seg) ==
    LET open  == IndexOf(seg, Ord("("))
        close == LastIndexOf(seg, Ord(")"))
        parts == Split(SubSeq(seg, open + 2, close), Ord(","))
    IN  IF open >= 0 /\ close > open
        THEN SelectSeq([k \in 1..Len(parts) |-> Trim(parts[k])], LAMBDA e : e # <<>>)
        ELSE <<>>

\* A technology entry with no colon, an empty name or an empty version.
BadEntry(e) ==
    LET colon == IndexOf(e, Ord(":"))
    IN  \/ colon = -1
        \/ Trim(SubSeq(e, 1, colon)) = <<>>
        \/ Trim(SubSeq(e, colon + 2, Len(e))) = <<>>

\* A segment that lacks a parenthesis, has no service name before "(", or holds
\* a bad technology entry.
Defective(seg) ==
    \/ ~Includes(seg, Ord("(")) \/ ~Includes(seg, Ord(")"))
    \/ seg[1] = Ord("(")
    \/ \E k \in 1..Len(EntriesOf(seg)) : BadEntry(EntriesOf(seg)[k])

\* C9: the strict decoder raises an error, and returns no partial result,
\* whenever a non-empty segment of the input lacks a parenthesis, has no service
\* name before "(", or contains a technology entry with no colon, an empty name
\* or an empty version.
StrictDecoderRaises ==
    (strictResult # NotDecoded
       /\ \E k \in 1..Len(SegmentsOf(raw)) : Defective(SegmentsOf(raw)[k])) =>
        (~strictResult.ok /\ strictResult.services = <<>>)

\* The strict decoder has raised on an input whose first segment is a service
\* it accepts and whose second segment is defective.
RaisedAfterGoodSegment ==
    /\ strictResult # NotDecoded /\ ~strictResult.ok
    /\ Len(SegmentsOf(raw)) = 2
    /\ ~Defective(SegmentsOf(raw)[1])
    /\ Len(decodeURLState(SegmentsOf(raw)[1]).services) = 1
    /\ Defective(SegmentsOf(raw)[2])

\* A segment of the form name(entries) with a non-empty name.
WellFormedSegment(seg) ==
    /\ Len(seg) >= 3
    /\ seg[Len(seg)] = Ord(")")
    /\ \E p \in 2..(Len(seg) - 1) : seg[p] = Ord("(")

\* The lenient decoder's result holds one service for each well-formed segment
\* of the input, and no technology with an empty name or version.
OnlyWellFormed ==
    LET segs == Split(Trim(raw), Ord(";"))
        svcs == lenientResult.services
    IN  /\ Len(svcs) = Cardinality({k \in 1..Len(segs) : WellFormedSegment(segs[k])})
        /\ \A i \in 1..Len(svcs) :
            /\ svcs[i].name # <<>>
            /\ \A j \in 1..Len(svcs[i].technologies) :
                /\ svcs[i].technologies[j].name # <<>>
                /\ svcs[i].technologies[j].currentVersion # <<>>

\* C10: for every input string the lenient decoder returns without raising, and
\* its result contains exactly the well-formed services and technologies of the
\* input, each malformed segment or technology entry omitted.
LenientDecoderReturns ==
    lenientResult # NotDecoded => (lenientResult.ok /\ OnlyWellFormed)

----------------------------------------------------------------------------
(* Properties of the Gantt adapter *)

\* The stages of a segment list, in order.
StagesOf(segs) == [k \in 1..Len(segs) |-> segs[k].stage]

\* The end date the specification gives a cycle: its eol date, else its support
\* date, else five years after its release.
EffectiveEnd(c) ==
    IF c.eol.kind = "date" THEN c.eol.date
    ELSE IF c.support.kind = "date" THEN c.support.date
    ELSE c.releaseDate.date + 5

\* C2: the segments of a cycle with a valid releaseDate and a resolvable end
\* date are contiguous, non-overlapping, ordered by start date with start not
\* after end in each, and cover exactly the range from releaseDate to the
\* effective end date.
SegmentsCover ==
    segments # <<>> =>
        /\ segments[1].start = cycle.releaseDate.date
        /\ segments[Len(segments)].end = EffectiveEnd(cycle)
        /\ \A k \in 1..Len(segments) : segments[k].start <= segments[k].end
        /\ \A k \in 1..(Len(segments) - 1) : segments[k].end = segments[k + 1].start

Contains(k, t) ==
    /\ segments[k].start <= t
    /\ t < segments[k].end \/ (k = Len(segments) /\ t = segments[k].end)

\* C4: for a cycle that has not expired, the current stage reported for the row
\* is the stage of the segment whose date range contains now.
StageIsSegmentOfNow ==
    (pcRow = "done" /\ Len(tasks) = 1 /\ ~(tasks[1].end < nowStage)) =>
        \A k \in 1..Len(segments) : Contains(k, nowStage) => segments[k].stage = stage

\* A cycle with a valid releaseDate and resolvable end information: an eol date,
\* or eol false (the end is then synthesized).
HasResolvableEnd(c) ==
    c.releaseDate.kind = "date" /\ c.eol.kind \in {"date", "false"}

\* The orderings of a list.
Orderings(list) ==
    LET n == Len(list)
    IN  { [k \in 1..n |-> list[p[k]]] :
            p \in {q \in [1..n -> 1..n] : \A a, b \in 1..n : q[a] = q[b] => a = b} }

\* What the specification has getRelevantCycles return from the sorted list.
FromCurrent(sorted, version) ==
    LET hits == {k \in 1..Len(sorted) : compareVersions(sorted[k].cycle, version) >= 0}
    IN  IF Trim(version) # <<>> /\ hits # {}
        THEN SubSeq(sorted, CHOOSE k \in hits : \A h \in hits : k <= h, Len(sorted))
        ELSE sorted

\* C5: getRelevantCycles returns the cycles with a valid releaseDate and
\* resolvable end information, sorted by ascending releaseDate, cut to the suffix
\* from the first cycle whose version is >= a non-blank currentVersion when
\* there is one, and whole in every other case.
RelevantCyclesSelected ==
    relevantCycles.done =>
        \E sorted \in Orderings(SelectSeq(cycles, HasResolvableEnd)) :
            /\ \A k \in 1..(Len(sorted) - 1) :
                   sorted[k].releaseDate.date <= sorted[k + 1].releaseDate.date
            /\ relevantCycles.result = FromCurrent(sorted, currentVersion)

LtsOnlyIsMaintenance ==
    (/\ pcRow = "done" /\ Len(tasks) = 1
     /\ cycle.lts.kind = "date" /\ cycle.support.kind # "date"
     /\ cycle.eol.kind = "date" /\ cycle.eol.date > nowStage
     /\ cycle.lts.date < nowSeg) =>
        /\ stage = "maintenance"
        /\ StagesOf(segments) = <<"current", "maintenance">>

----------------------------------------------------------------------------
(* Properties of the decoded ids *)

\* The ids of a decoded service list are 'service-<index>' and
\* 'tech-<serviceIndex>-<techIndex>', the indexes being 0-based positions in it.
PositionalIds(svcs) ==
    \A i \in 1..Len(svcs) :
        /\ svcs[i].id = Str(<<"s","e","r","v","i","c","e","-">>) \o Digits(i - 1)
        /\ \A j \in 1..Len(svcs[i].technologies) :
               svcs[i].technologies[j].id =
                   Str(<<"t","e","c","h","-">>) \o Digits(i - 1) \o <<Ord("-")>> \o Digits(j - 1)

\* C11: every decoded service has id 'service-<index>' and every decoded
\* technology has id 'tech-<serviceIndex>-<techIndex>', the indexes being the
\* positions of the service and of the technology in the decoded result.
DecodedIdsArePositions ==
    /\ strictResult.ok => PositionalIds(strictResult.services)
    /\ lenientResult.ok => PositionalIds(lenientResult.services)

----------------------------------------------------------------------------
(* Properties of reading the address bar *)

\* The text of the 's' parameter of the address bar, empty when there is none.
ParamOf(query) == UrlSearchParamsGet(query, Str(<<"s">>)).value

----------------------------------------------------------------------------
(* Properties of edits *)

\* Whether a list is too large for the URL: encodeURLState throws on it.
TooLarge(svcs) == ~encodeURLState(svcs).ok

\* C13: when a change handler is called with a list too large for the URL, the
\* in-memory list becomes that list, the address bar keeps its content, and the
\* notice about the URL is what the component reports (urlError of the hook,
\* notification of the page).
TooLargeEditIsKeptAndReported ==
    [][(edit' # edit /\ TooLarge(edit'.services)) =>
          /\ search' = search
          /\ edit'.by = "hook" =>
                hook'.services = edit'.services /\ hook'.urlError = TooLongError
          /\ edit'.by = "page" =>
                page'.services = edit'.services /\ page'.notification = TooLongNotification
      ]_vars

\* The page took a list too large for the URL while the save also failed.
TooLargeEditWithFailedSave ==
    /\ edit.by = "page" /\ TooLarge(edit.services)
    /\ page.services = edit.services
    /\ page.notification \notin {"none", TooLongNotification}

----------------------------------------------------------------------------
(* Properties of the chart *)

\* A sequence without its element at position k.
RemoveAt(seq, k) == SubSeq(seq, 1, k - 1) \o SubSeq(seq, k + 1, Len(seq))

\* The service list without technology j of service i.
WithoutTechnology(svcs, i, j) ==
    [svcs EXCEPT ![i].technologies = RemoveAt(@, j)]

\* The catalog without cycle k of product p.
WithoutCycle(data, p, k) == [data EXCEPT ![p] = RemoveAt(@, k)]

\* The release date of a cycle is missing or no valid date.
UnusableReleaseDate(c) == c.releaseDate.kind # "date"

\* C14: a technology with no catalog entry and a cycle with an unusable release
\* date contribute nothing: the tasks are those of the same input without that
\* technology, and those of the same catalog without that cycle.
RowsAreIndependent ==
    ganttData.done =>
        /\ \A i \in 1..Len(ganttInput) : \A j \in 1..Len(ganttInput[i].technologies) :
              ganttInput[i].technologies[j].name \notin DOMAIN eolData =>
                  ganttData.tasks =
                      convertToGanttData(WithoutTechnology(ganttInput, i, j), eolData, clock)
        /\ \A p \in DOMAIN eolData : \A k \in 1..Len(eolData[p]) :
              UnusableReleaseDate(eolData[p][k]) =>
                  ganttData.tasks =
                      convertToGanttData(ganttInput, WithoutCycle(eolData, p, k), clock)

\* The same for unknown technologies and cycles without a release date only.
RowsIndependentOfMissing ==
    ganttData.done =>
        /\ \A i \in 1..Len(ganttInput) : \A j \in 1..Len(ganttInput[i].technologies) :
              ganttInput[i].technologies[j].name \notin DOMAIN eolData =>
                  ganttData.tasks =
                      convertToGanttData(WithoutTechnology(ganttInput, i, j), eolData, clock)
        /\ \A p \in DOMAIN eolData : \A k \in 1..Len(eolData[p]) :
              eolData[p][k].releaseDate.kind = "empty" =>
                  ganttData.tasks =
                      convertToGanttData(ganttInput, WithoutCycle(eolData, p, k), clock)

\* A task was pushed for a cycle whose release date does not parse.
TaskOfUnparseableRelease ==
    /\ ganttData.done
    /\ \E p \in DOMAIN eolData : \E k \in 1..Len(eolData[p]) :
          /\ eolData[p][k].releaseDate.kind = "invalid"
          /\ Len(ganttData.tasks) >
                Len(convertToGanttData(ganttInput, WithoutCycle(eolData, p, k), clock))

----------------------------------------------------------------------------
(* Properties of boolean lts and support fields *)

\* The cycle with a field that holds the boolean true removed.
AsAbsent(c) ==
    [c EXCEPT !.lts     = IF @.kind = "true" THEN OtherField("absent") ELSE @,
              !.support = IF @.kind = "true" THEN OtherField("absent") ELSE @]

\* C15: a cycle whose lts or support is the boolean true gets the segments and
\* the stage of the same cycle without that field, read at the same instants.
TrueFieldsCountAsAbsent ==
    /\ (pcRow \in {"segmented", "done"} /\ Len(relevant) > 0 /\ YieldsTask(relevant[1])) =>
          segments = calculateStages(AsAbsent(relevant[1]), GetTime(relevant[1].releaseDate),
                                     EolDate(AsAbsent(relevant[1])), nowSeg)
    /\ (pcRow = "done" /\ Len(tasks) > 0) =>
          /\ stage = getLifecycleStage(AsAbsent(relevant[1]), GetTime(relevant[1].releaseDate),
                                       EolDate(AsAbsent(relevant[1])), nowStage)
          /\ tasks[1].segments = segments /\ tasks[1].stage = stage

\* A row was built for a live cycle with lts: true and a support date.
RowOfCycleWithTrueLts ==
    /\ pcRow = "done" /\ Len(tasks) > 0
    /\ cycle.lts.kind = "true" /\ cycle.support.kind = "date"
    /\ StagesOf(segments) = <<"active", "maintenance">>
    /\ stage = "maintenance"

----------------------------------------------------------------------------
(* Properties of the version comparison *)

\* C16: compareVersions compares the numeric components with zero padding:
\* swapping the arguments reverses the sign, the order is transitive through
\* every third label, "1.9" < "1.22" < "1.25", and "2.0" equals "2.0".
VersionsAreOrdered ==
    /\ order.done =>
          /\ order.forward = -order.backward
          /\ order.forward = CompareParts(
                 [k \in 1..MaxParts |-> IF k <= Len(Normalize(versions[1]))
                                        THEN Normalize(versions[1])[k] ELSE 0],
                 [k \in 1..MaxParts |-> IF k <= Len(Normalize(versions[2]))
                                        THEN Normalize(versions[2])[k] ELSE 0], 1)
          /\ \A c \in VersionLabels :
                /\ (order.forward <= 0 /\ compareVersions(versions[2], c) <= 0) =>
                       compareVersions(versions[1], c) <= 0
                /\ (order.forward < 0 /\ compareVersions(versions[2], c) <= 0) =>
                       compareVersions(versions[1], c) < 0
                /\ (order.forward <= 0 /\ compareVersions(versions[2], c) < 0) =>
                       compareVersions(versions[1], c) < 0
          /\ (versions = <<Str(<<"1", ".", "9">>), Str(<<"1", ".", "2", "2">>)>>) =>
                order.forward < 0
          /\ (versions = <<Str(<<"1", ".", "2", "2">>), Str(<<"1", ".", "2", "5">>)>>) =>
                order.forward < 0
          /\ (versions = <<Str(<<"2", ".", "0">>), Str(<<"2", ".", "0">>)>>) =>
                order.forward = 0

\* "1.9" was compared with "1.22" in both directions.
ComparedMinorNineWithTwentyTwo ==
    /\ order.done
    /\ versions = <<Str(<<"1", ".", "9">>), Str(<<"1", ".", "2", "2">>)>>
    /\ order.forward = -1 /\ order.backward = 1

----------------------------------------------------------------------------
(* Properties of start-up *)

\* The list the 's' parameter of the address bar decodes to; none when there is
\* no parameter or it does not decode.
UrlList(query) ==
    IF ParamOf(query) = <<>> \/ ~decodeURLState(ParamOf(query)).ok THEN <<>>
    ELSE decodeURLState(ParamOf(query)).services

\* The list stored under the key, when the stored value is an array.
StoredList(item) ==
    IF item.kind = "text" /\ item.value.t = "array" THEN FromJson(item.value) ELSE <<>>

----------------------------------------------------------------------------
(* Properties of loadFromLocalStorage *)

\* The stored value is an array of services with string id and name whose
\* technologies each have string id, name and currentVersion.
WellFormedStored(item) ==
    /\ item.kind = "text" /\ item.value.t = "array"
    /\ \A k \in 1..Len(item.value.items) : IsServiceWithTechnologies(item.value.items[k])

\* C18: loadFromLocalStorage succeeds with the stored list when the stored value
\* is a well-formed list, and for any other stored value reports failure and
\* returns the empty list.
OnlyWellFormedListsLoad ==
    (loadResult.done /\ stored.kind = "text") =>
        IF WellFormedStored(stored)
        THEN loadResult.success => loadResult.data = FromJson(stored.value)
        ELSE ~loadResult.success /\ loadResult.data = <<>>

\* A list whose technology lacks a string field was loaded as it is.
LoadedMalformedTechnology ==
    /\ loadResult.done /\ loadResult.success
    /\ stored.kind = "text" /\ ~WellFormedStored(stored)
    /\ loadResult.data # <<>>

----------------------------------------------------------------------------
(* Properties of the catalog loader *)

\* C19: while no fetch has failed and the cache was not cleared, all the
\* loadEOLData calls made share one fetch, and each that returned gave that
\* fetch's data.
OneFetchServesAllCalls ==
    (cleared = 0 /\ \A k \in 1..Len(fetches) : fetches[k].state # "rejected") =>
        /\ Len(fetches) = (IF Len(calls) > 0 THEN 1 ELSE 0)
        /\ \A c \in 1..Len(calls) :
              /\ calls[c].state # "threw"
              /\ calls[c].state = "returned" => calls[c].result = 1

\* Three calls, the second made while the fetch was pending and the third after
\* the data was cached, all returned the data of the one fetch.
ThreeCallsSharedOneFetch ==
    /\ cleared = 0 /\ Len(fetches) = 1 /\ Len(calls) = 3
    /\ calls[1].owner /\ calls[2].fetch = 1 /\ calls[3].fetch = 0
    /\ \A c \in 1..3 : calls[c].state = "returned" /\ calls[c].result = 1

\* C20: a loadEOLData call made after a cache clear returns data of a fetch
\* started after that clear, and the first call after a clear starts a fetch.
LoadAfterClearIsFresh ==
    \A c \in 1..Len(calls) :
        calls[c].epoch >= 1 =>
            /\ calls[c].state = "returned" => fetches[calls[c].result].epoch >= calls[c].epoch
            /\ (\A b \in 1..(c - 1) : calls[b].epoch < calls[c].epoch) => calls[c].owner

\* A call made after the clear returned the data of the fetch in flight at the clear.
StaleDataAfterClear ==
    \E c \in 1..Len(calls) :
        /\ calls[c].epoch = 1 /\ calls[c].state = "returned"
        /\ fetches[calls[c].result].epoch = 0

\* The load that started the latest fetch has thrown that fetch's error.
LatestLoadThrew ==
    /\ Len(fetches) > 0 /\ fetches[Len(fetches)].state = "rejected"
    /\ \E c \in 1..Len(calls) :
          calls[c].owner /\ calls[c].fetch = Len(fetches) /\ calls[c].state = "threw"

\* C21: with no cache clear in between, a call that waited on a fetch that
\* failed never returns data but throws, nothing is cached once the latest
\* fetch has failed, and a loadEOLData call made after the failing load threw
\* starts a new fetch.
FailedLoadIsRetried ==
    /\ [](cleared = 0 =>
            /\ \A c \in 1..Len(calls) :
                  (calls[c].fetch # 0 /\ fetches[calls[c].fetch].state = "rejected") =>
                      calls[c].state \in {"awaiting", "threw"}
            /\ (Len(fetches) > 0 /\ fetches[Len(fetches)].state = "rejected") =>
                  eolDataCache = 0)
    /\ [][(cleared = 0 /\ LatestLoadThrew /\ Len(calls') = Len(calls) + 1) =>
             /\ Len(fetches') = Len(fetches) + 1
             /\ calls'[Len(calls')].owner /\ calls'[Len(calls')].fetch = Len(fetches')]_vars

\* Two calls waited on the first fetch and both threw when it failed; the third
\* call started a second fetch.
RetriedAfterFailedLoad ==
    /\ cleared = 0 /\ Len(fetches) = 2 /\ Len(calls) = 3 /\ eolDataCache = 0
    /\ fetches[1].state = "rejected"
    /\ calls[1].owner /\ calls[1].state = "threw"
    /\ ~calls[2].owner /\ calls[2].fetch = 1 /\ calls[2].state = "threw"
    /\ calls[3].owner /\ calls[3].fetch = 2

----------------------------------------------------------------------------
(* Properties of the fetch script *)

\* The positions in the events of a fetchWithRetry call where a fetch was made.
FetchEvents ==
    {i \in 1..Len(retry.events) : "fetch" \in DOMAIN retry.events[i]}

\* C22: fetchWithRetry fetches at most three times; between two consecutive
\* fetches lies exactly one wait of 1000 ms; it returns exactly when a fetch
\* succeeded, with that fetch's data and nothing done after it, all fetches
\* before it having failed; and it throws exactly after three failed fetches,
\* with an error naming three attempts and carrying the last failure's message.
RetryIsBounded ==
    retry.pc # "idle" =>
        /\ Cardinality(FetchEvents) <= 3
        /\ \A i \in 1..Len(retry.events) :
              IF i \in FetchEvents
              THEN i + 1 \in FetchEvents => FALSE
              ELSE /\ retry.events[i] = [delay |-> 1000]
                   /\ i > 1 /\ i - 1 \in FetchEvents
                   /\ i < Len(retry.events) => i + 1 \in FetchEvents
        /\ \A i \in FetchEvents :
              retry.events[i].fetch.ok =>
                  /\ i = Len(retry.events)
                  /\ retry.outcome = [returned |-> retry.events[i].fetch.data]
        /\ "returned" \in DOMAIN retry.outcome =>
              /\ retry.events # <<>>
              /\ retry.events[Len(retry.events)].fetch.ok
        /\ "threw" \in DOMAIN retry.outcome =>
              /\ Cardinality(FetchEvents) = 3
              /\ \A i \in FetchEvents : ~retry.events[i].fetch.ok
              /\ retry.outcome.threw.tries = 3
              /\ retry.outcome.threw.text = "attempts all failed"
              /\ retry.outcome.threw.message = retry.events[Len(retry.events)].fetch.message
        /\ (Cardinality(FetchEvents) = 3 /\ Len(retry.events) = 5) =>
              "running" \notin DOMAIN retry.outcome

\* Two attempts failed, each followed by a wait, and the third returned its data.
ThirdAttemptSucceeded ==
    /\ retry.pc = "done" /\ Len(retry.events) = 5
    /\ ~retry.events[1].fetch.ok /\ ~retry.events[3].fetch.ok /\ retry.events[5].fetch.ok
    /\ retry.outcome = [returned |-> retry.events[5].fetch.data]

----------------------------------------------------------------------------
(* Properties of the clock *)

\* C23: whatever the clock did while the row was built, the row's stage is eol
\* exactly when its segments are the single eol segment.
StageAndSegmentsAgree ==
    (pcRow = "done" /\ Len(tasks) = 1) =>
        (tasks[1].stage = "eol" <=> StagesOf(tasks[1].segments) = <<"eol">>)

\* A row whose segments were cut before the end date passed and whose stage was
\* read after it.
RowBuiltAcrossItsEnd ==
    /\ pcRow = "done" /\ Len(tasks) = 1
    /\ ~(tasks[1].end < nowSeg) /\ tasks[1].end < nowStage

----------------------------------------------------------------------------
(* Properties of the address bar under edits *)

\* C24: after an edit or a clear whose URL update succeeded, the address bar has
\* no 's' parameter exactly when the service list is empty, and otherwise its
\* 's' parameter decodes to the current list on service names, technology
\* names, versions and order.
AddressBarFollowsList ==
    (edit.by # "none" /\ edit.updated) =>
        IF Len(edit.services) = 0
        THEN ~UrlSearchParamsGet(search, Str(<<"s">>)).found
        ELSE /\ UrlSearchParamsGet(search, Str(<<"s">>)).found
             /\ decodeURLState(ParamOf(search)).ok
             /\ SameFields(decodeURLState(ParamOf(search)).services, edit.services)

\* The form's "add service" was the last edit: the list ends with a service
\* whose only technology has an empty name and version, and the URL was updated.
AddedServiceIsInAddressBar ==
    /\ edit.by # "none" /\ edit.updated /\ Len(edit.services) = 1
    /\ edit.services = addNewService(<<>>)
    /\ UrlSearchParamsGet(search, Str(<<"s">>)).found

\* C25: when setURLState reported success, the query string in the address bar
\* has at most 2048 characters.
WrittenQueryWithinLimit ==
    (edit.by = "setURLState" /\ edit.updated) => Len(search) <= 2048

\* setURLState succeeded on a list whose "?s=" form has exactly 2048 characters.
WroteListAtLimit ==
    /\ edit.by = "setURLState" /\ edit.updated
    /\ Len(CompactForm(edit.services)) + 3 = 2048

----------------------------------------------------------------------------
(* Properties of the encoding of two lists *)

\* C26: two service lists that differ in a service name, a technology name, a
\* version, or in the technologies of a service do not encode to the same string.
EncodingIsInjective ==
    (encoded.ok /\ otherEncoded.ok /\ ~SameFields(services, other)) =>
        encoded.value # otherEncoded.value

\* Two lists that differ were both encoded.
EncodedTwoDifferentLists ==
    /\ encoded.ok /\ otherEncoded.ok /\ ~SameFields(services, other)
    /\ Len(services) = 1 /\ Len(other) = 1

----------------------------------------------------------------------------
(* Properties of sharing *)

\* C27: a fresh session opened on the URL of getShareableURL has, once its URL is
\* loaded, no URL error and a service list equal to the shared one on service
\* names, technology names, versions and order.
SharedListIsRestored ==
    (edit.by = "getShareableURL" /\ edit.updated /\ hook.isURLLoaded) =>
        /\ hook.urlError = "none"
        /\ SameFields(hook.services, services)

\* A fresh session was opened on the shared URL of a list with a technology.
OpenedSharedTechnology ==
    /\ edit.by = "getShareableURL" /\ edit.updated /\ hook.isURLLoaded
    /\ Len(services) = 1 /\ Len(services[1].technologies) = 1

----------------------------------------------------------------------------
(* Properties of the selected version range *)

\* C28: when the version of some cycle compares greater than or equal to a
\* non-blank currentVersion, no cycle returned by getRelevantCycles has a version
\* that compares lower than currentVersion.
NoOlderVersionSelected ==
    (/\ relevantCycles.done
     /\ Trim(currentVersion) # <<>>
     /\ \E k \in 1..Len(cycles) : compareVersions(cycles[k].cycle, currentVersion) >= 0) =>
        \A r \in 1..Len(relevantCycles.result) :
            compareVersions(relevantCycles.result[r].cycle, currentVersion) >= 0

\* The current version was selected among cycles that all have a release date
\* and an eol date, the newer version being the one released first.
SelectedAmongOutOfOrderReleases ==
    /\ relevantCycles.done /\ Len(cycles) = 2
    /\ \A k \in 1..2 : cycles[k].releaseDate.kind = "date" /\ cycles[k].eol.kind = "date"
    /\ compareVersions(cycles[1].cycle, cycles[2].cycle) > 0
    /\ cycles[1].releaseDate.date < cycles[2].releaseDate.date
    /\ currentVersion = cycles[1].cycle

----------------------------------------------------------------------------
(* Properties of the editor after a notice *)

\* C29: when the 'URL too long' notice of the hook is up and an edit brings the
\* list back under the limit, the address bar then holds the encoding of the
\* edited list and the application is not replaced by the error screen.
EditorUsableAfterNotice ==
    [][(/\ hook.urlError = TooLongError
        /\ edit'.by = "hook" /\ hook'.services # hook.services
        /\ Len(edit'.services) > 0 /\ edit'.updated) =>
           /\ ParamOf(search') = encodeURLState(edit'.services).value
           /\ ~ErrorScreen(hook')]_vars

\* A list under the limit is shown by the hook while its notice is still up.
FittingListUnderNotice ==
    /\ edit.by = "hook" /\ Len(edit.services) > 0 /\ edit.updated
    /\ hook.urlError = TooLongError

----------------------------------------------------------------------------
(* Properties of the current-version mark *)

\* The rows of the chart that belong to technology j of service i and carry
\* the current-version mark.
MarkedRows(i, j) ==
    {k \in 1..Len(ganttData.tasks) :
        /\ ganttData.tasks[k].serviceName = ganttInput[i].name
        /\ ganttData.tasks[k].techName = ganttInput[i].technologies[j].name
        /\ ganttData.tasks[k].task.isCurrentVersion}

\* No two cycles of a product carry the same version label, and no two
\* technologies of the list the same service and technology name.
DistinctLabels ==
    /\ \A p \in DOMAIN eolData : \A k \in 1..Len(eolData[p]) : \A h \in 1..Len(eolData[p]) :
          eolData[p][k].cycle = eolData[p][h].cycle => k = h
    /\ \A i \in 1..Len(ganttInput) : \A j \in 1..Len(ganttInput[i].technologies) :
          \A g \in 1..Len(ganttInput) : \A h \in 1..Len(ganttInput[g].technologies) :
              (/\ ganttInput[i].name = ganttInput[g].name
               /\ ganttInput[i].technologies[j].name = ganttInput[g].technologies[h].name) =>
                  (i = g /\ j = h)

\* C30: of the rows of one technology of a service, at most one is marked as the
\* current version.
OneCurrentVersionRow ==
    (ganttData.done /\ DistinctLabels) =>
        \A i \in 1..Len(ganttInput) : \A j \in 1..Len(ganttInput[i].technologies) :
            Cardinality(MarkedRows(i, j)) <= 1

\* A technology at version 3.10 was charted against a catalog that has the
\* cycles 3.10 and 3.10-e, both with a release date.
ChartedSuffixedCycle ==
    /\ ganttData.done /\ DistinctLabels
    /\ Len(ganttInput) = 1 /\ Len(ganttInput[1].technologies) = 1
    /\ ganttInput[1].technologies[1].currentVersion = Str(<<"3", ".", "1", "0">>)
    /\ Cardinality(MarkedRows(1, 1)) = 2

====
